---- MODULE Spec2Model ----
(***************************************************************************)
(* Time-windowed retrieval of the Discord bot: fetchMessagesOptimized,     *)
(* expandFromAnchor and fetchMessages of src/src/utils/messageUtils.js     *)
(* (the revision that exports DISCORD_EPOCH, lines 735-1260, which is the  *)
(* one src/src/bot.js imports), MessageService.fetchMessagesForContext and *)
(* the monthly JSONL index of IndexService.                                *)
(*                                                                         *)
(* Time is scaled: one model tick stands for a span of milliseconds, the   *)
(* Discord epoch is tick DISCORD_EPOCH, and a snowflake keeps the          *)
(* timestamp in its high part: id = (ts - DISCORD_EPOCH) * SnowflakeShift  *)
(* + increment.                                                            *)
(***************************************************************************)
EXTENDS Integers, Sequences, FiniteSets, TLC

\* ------------------------------------------------------------- bounds
MaxTs == 3        \* timestamps are 0..MaxTs
MaxRecs == 3      \* the remote store holds at most MaxRecs messages
MaxMax == 3       \* the max option ranges over 1..MaxMax
BatchLimit == 2   \* stands for `limit: 100` of every channel.messages.fetch
TicksPerMonth == 2  \* length of a calendar month in ticks
MaxOffset == 63      \* dates up to MaxOffset ms after the epoch are encoded
MaxDay == 4          \* civil days 0..MaxDay can be named by a token
DstFirst == 1        \* the civil day on which daylight saving begins
DstLast == 3         \* the civil day on which daylight saving ends
FirstMonth == 11    \* tick 0 lies in December, so later ticks cross a year

\* ------------------------------------------------- program constants
HoursPerDay == 24       \* instants of the date model are whole hours
TransitionHour == 2     \* the local clock changes at 02:00
OffsetEST == 5          \* hours behind UTC outside daylight saving
OffsetEDT == 4          \* hours behind UTC inside daylight saving
MantissaBits == 6       \* a Number holds 53 bits exactly, scaled
Increments == 8         \* 4194304 where the product exceeds the mantissa
DISCORD_EPOCH == 1      \* 1420070400000 ms, scaled to ticks
SnowflakeShift == 2     \* 4194304 = 2^22 ids per millisecond, scaled
maxAttempts == 3
OneDay == 2             \* 24 * 60 * 60 * 1000 ms, scaled to ticks
MonthsPerYear == 12     \* Date.prototype.setMonth rolls over after month 11

NoId == -1              \* undefined / null message id
NoTime == -1            \* stopTime = null
\* no value: the call has not settled, or settled the other way
NoResult == [sorted |-> <<>>, rawLog |-> <<>>, hitLimit |-> FALSE,
             stopTime |-> NoTime, hasApiCalls |-> FALSE, apiCalls |-> -1,
             fetchTime |-> FALSE, usedFallback |-> FALSE, hadError |-> FALSE,
             noMessagesFound |-> FALSE]
NoError == "none"
RemoteCallError == "RemoteCallError"
FetchFailure == "Failed to fetch conversation messages"

\* no call issues this many fetches; the guard keeps the counters finite
CallCap == 4 * (MaxRecs + 2)

Timestamps == 0..MaxTs
Ids == 0..((MaxTs - DISCORD_EPOCH + 1) * SnowflakeShift - 1)

\* createdTimestamp of the message with snowflake id
Ts(id) == DISCORD_EPOCH + (id \div SnowflakeShift)

VARIABLES
  store,                 \* ids of the messages the remote channel holds
  startUTC, endUTC, max, \* the window and the limit of the running call
  pc,                    \* the await the running call is suspended at
  entry,                 \* the function the caller invoked
  via,                   \* how fetchMessagesOptimized reached its callee
  anchorMessage,
  allMessagesMap,        \* Map in insertion order, as a sequence of ids
  allRaw,
  hitLimit, stopTime, apiCalls,
  beforeId, reachedStartBoundary,
  afterId, reachedEndBoundary,
  apiCallCount, searchAttempts,
  result,                \* the value the entry function resolved with
  thrown,                \* the error the entry function rejected with
  remoteCalls,           \* every channel.messages.fetch issued by the call
  optError,              \* what the catch of fetchMessagesOptimized caught
  fallbacks,             \* times the call switched to fetchMessages
  fallbackErrored,       \* a fetch of a linear fallback raised an error
  indexEnabled,          \* config persistence.enabled
  indexFiles,            \* <<channel, year, month>> -> the lines of the file
  appended,              \* the messages appendMessage was called with
  queried,               \* what the last getMessagesByDateRange returned
  writers,               \* appendMessage calls in flight, each at its await
  written,               \* every write to a month file, in completion order
  content,               \* the date-range token of the text being parsed
  now,                   \* the instant new Date() returns
  window,                \* what parseDateRange returned
  date,                  \* the instant handed to dateToSnowflake, in ms
  snowflake,             \* the id string it returned, as the number it spells
  overlap,               \* how many held records this store repeats per batch
  previous,              \* the sorted list of the retrieval before this one
  dayOfWeek,             \* the weekday of March 1 of the year, 0 = Sunday
  nyDate,                \* the local date handed to nyToUTC
  utcDate,               \* what isEDT and nyToUTC made of it
  dateStr,               \* the date literal handed to parseDate
  returned,              \* what parseDate returned for it
  scanned,               \* an index query over damaged files and its answer
  indexing,              \* how far an indexHistoricMessages call has come
  incoming,              \* the message the messageCreate listener is handling
  stage,                 \* the await the listener or its handler is at
  dispatched,            \* the handlers whose handle() ran for the message
  posted,                \* replies, channel posts and AI requests, in order
  raised,                \* the errors raised while handling the message
  diagnostics,           \* the logger.error sites that ran for the message
  fetched,               \* what fetchMessagesForContext resolved with
  processedMessageIds,   \* the module-level Set of buildOpenAIInput
  inputs,                \* what each buildOpenAIInput call returned
  contextEnabled,        \* persistence.enabled as ContextService read it
  contextFile,           \* the parsed content of context.json
  running                \* ContextService calls in flight, each at its await

vars == <<store, startUTC, endUTC, max, pc, entry, via, anchorMessage,
          allMessagesMap, allRaw, hitLimit, stopTime, apiCalls, beforeId,
          reachedStartBoundary, afterId, reachedEndBoundary, apiCallCount,
          searchAttempts, result, thrown, remoteCalls, optError, fallbacks,
          fallbackErrored, indexEnabled, indexFiles, appended, queried,
          writers, written, content, now, window, date, snowflake, overlap,
          previous, dayOfWeek, nyDate, utcDate,
          dateStr, returned, scanned, indexing, incoming, stage, dispatched,
          posted, raised, diagnostics, fetched, processedMessageIds, inputs,
          contextEnabled, contextFile, running>>

fetchVars == <<store, startUTC, endUTC, max, pc, entry, via, anchorMessage,
               allMessagesMap, allRaw, hitLimit, stopTime, apiCalls, beforeId,
               reachedStartBoundary, afterId, reachedEndBoundary, apiCallCount,
               searchAttempts, result, thrown, remoteCalls, optError, fallbacks,
               fallbackErrored>>
parseVars == <<content, now, window>>
encodeVars == <<date, snowflake>>
replayVars == <<overlap, previous>>
zoneVars == <<dayOfWeek, nyDate, utcDate>>
literalVars == <<dateStr, returned>>
scanVars == <<scanned>>
historicVars == <<indexing>>
handleVars == <<incoming, stage, dispatched, posted, raised, diagnostics,
                fetched>>
openaiVars == <<processedMessageIds, inputs>>
contextVars == <<contextEnabled, contextFile, running>>
botVars == <<handleVars, openaiVars, contextVars>>
sideVars == <<writers, written, parseVars, encodeVars, replayVars, zoneVars,
              literalVars, scanVars, historicVars, botVars>>
indexVars == <<indexEnabled, indexFiles, appended, queried, sideVars>>

\* ------------------------------------------------------ remote store
SetMax(S) == CHOOSE x \in S : \A y \in S : y <= x

RECURSIVE Descending(_)
Descending(S) ==
  IF S = {} THEN <<>> ELSE <<SetMax(S)>> \o Descending(S \ {SetMax(S)})

Newest(S, n) == {x \in S : Cardinality({y \in S : y > x}) < n}
Oldest(S, n) == {x \in S : Cardinality({y \in S : y < x}) < n}

\* fault: the window is open at its start
InRangeAfterStart(ts) == ts > startUTC /\ ts <= endUTC

InRange(ts) == ts >= startUTC /\ ts <= endUTC
InWindow == {m \in store : InRange(Ts(m))}

\* channel.messages.fetch({limit, before}): the newest messages older than
\* `before`, newest first.  A batch may repeat up to k messages the caller
\* already holds (ids >= before); past the oldest message it is empty.
FetchBeforeAt(before, k) ==
  LET older == IF before = NoId THEN store ELSE {m \in store : m < before}
      seen  == IF before = NoId THEN {} ELSE {m \in store : m >= before}
  IN IF older = {} THEN <<>>
     ELSE Descending(Newest(older \cup Oldest(seen, k), BatchLimit))

FetchBefore(before) == {FetchBeforeAt(before, k) : k \in 0..(BatchLimit - 1)}

\* channel.messages.fetch({limit, after}): the oldest messages newer than
\* `after`, newest first, with the same overlap.
FetchAfterAt(after, k) ==
  LET newer == {m \in store : m > after}
      seen  == {m \in store : m <= after}
  IN IF newer = {} THEN <<>>
     ELSE Descending(Oldest(newer \cup Newest(seen, k), BatchLimit))

FetchAfter(after) == {FetchAfterAt(after, k) : k \in 0..(BatchLimit - 1)}

\* channel.messages.fetch({limit, around}): the messages next to the id.
FetchAround(around) ==
  Descending(Newest({m \in store : m < around}, BatchLimit \div 2)
             \cup Oldest({m \in store : m >= around},
                         BatchLimit - (BatchLimit \div 2)))

\* ------------------------------------------------------ pure helpers
Has(map, id) == \E i \in 1..Len(map) : map[i] = id

RECURSIVE InsertByTs(_, _)
InsertByTs(s, m) ==
  IF s = <<>> THEN <<m>>
  ELSE IF Ts(Head(s)) <= Ts(m) THEN <<Head(s)>> \o InsertByTs(Tail(s), m)
  ELSE <<m>> \o s

\* Array.prototype.sort((a, b) => a.createdTimestamp - b.createdTimestamp),
\* which is stable
RECURSIVE SortByTimestamp(_)
SortByTimestamp(s) ==
  IF s = <<>> THEN <<>>
  ELSE InsertByTs(SortByTimestamp(SubSeq(s, 1, Len(s) - 1)), s[Len(s)])

\* fault: dateToSnowflake accepts every date
SnowflakeNeverThrows(t) == FALSE

\* dateToSnowflake: throws before the epoch
SnowflakeThrows(t) == t < DISCORD_EPOCH
dateToSnowflake(t) == (t - DISCORD_EPOCH) * SnowflakeShift

\* new Date((startUTC + endUTC) / 2)
MidDate(s, e) == (s + e) \div 2

findAnchorMessage(batch) ==
  IF \E i \in 1..Len(batch) : InRange(Ts(batch[i]))
  THEN batch[CHOOSE i \in 1..Len(batch) :
               /\ InRange(Ts(batch[i]))
               /\ \A j \in 1..(i - 1) : ~InRange(Ts(batch[j]))]
  ELSE NoId

Abs(x) == IF x < 0 THEN -x ELSE x
Min2(a, b) == IF a < b THEN a ELSE b
Distance(m) == Min2(Abs(Ts(m) - startUTC), Abs(Ts(m) - endUTC))

\* the first message of the batch at the smallest distance
NearestMessage(batch) ==
  IF batch = <<>> THEN NoId
  ELSE batch[CHOOSE i \in 1..Len(batch) :
               /\ \A j \in 1..Len(batch) : Distance(batch[i]) <= Distance(batch[j])
               /\ \A j \in 1..(i - 1) : Distance(batch[j]) > Distance(batch[i])]

\* -------------------------------------------------- the batch loops
\* fault: the backward loop without the allMessagesMap.has(msg.id) test, as
\* in the array-based revision of expandFromAnchor
RECURSIVE ScanBackwardNoDedup(_, _)
ScanBackwardNoDedup(st, batch) ==
  IF batch = <<>> THEN st
  ELSE LET msg == Head(batch)
           ts  == Ts(msg)
           raw == Append(st.raw, msg)
       IN IF ts < startUTC
          THEN [st EXCEPT !.raw = raw, !.reached = TRUE, !.stop = ts]
          ELSE IF InRange(ts)
          THEN IF Len(st.map) + 1 >= max
               THEN [st EXCEPT !.raw = raw, !.map = Append(st.map, msg),
                               !.hit = TRUE, !.stop = ts]
               ELSE ScanBackwardNoDedup([st EXCEPT !.raw = raw, !.cursor = msg,
                                                   !.map = Append(st.map, msg)],
                                        Tail(batch))
          ELSE ScanBackwardNoDedup([st EXCEPT !.raw = raw, !.cursor = msg],
                                   Tail(batch))

\* fault: the backward loop never moves beforeId
RECURSIVE ScanBackwardStalls(_, _)
ScanBackwardStalls(st, batch) ==
  IF batch = <<>> THEN st
  ELSE LET msg == Head(batch)
           ts  == Ts(msg)
           raw == Append(st.raw, msg)
       IN IF ts < startUTC
          THEN [st EXCEPT !.raw = raw, !.reached = TRUE, !.stop = ts]
          ELSE IF InRange(ts) /\ ~Has(st.map, msg)
          THEN IF Len(st.map) + 1 >= max
               THEN [st EXCEPT !.raw = raw, !.map = Append(st.map, msg),
                               !.hit = TRUE, !.stop = ts]
               ELSE ScanBackwardStalls([st EXCEPT !.raw = raw,
                                                  !.map = Append(st.map, msg)],
                                       Tail(batch))
          ELSE ScanBackwardStalls([st EXCEPT !.raw = raw], Tail(batch))

\* fault: the backward loop moves the cursor only to records it accepted
RECURSIVE ScanBackwardSkipKeepsCursor(_, _)
ScanBackwardSkipKeepsCursor(st, batch) ==
  IF batch = <<>> THEN st
  ELSE LET msg == Head(batch)
           ts  == Ts(msg)
           raw == Append(st.raw, msg)
       IN IF ts < startUTC
          THEN [st EXCEPT !.raw = raw, !.reached = TRUE, !.stop = ts]
          ELSE IF InRange(ts) /\ ~Has(st.map, msg)
          THEN IF Len(st.map) + 1 >= max
               THEN [st EXCEPT !.raw = raw, !.map = Append(st.map, msg),
                               !.hit = TRUE, !.stop = ts]
               ELSE ScanBackwardSkipKeepsCursor(
                      [st EXCEPT !.raw = raw, !.cursor = msg,
                                 !.map = Append(st.map, msg)], Tail(batch))
          ELSE ScanBackwardSkipKeepsCursor([st EXCEPT !.raw = raw], Tail(batch))

\* fault: the backward loop walks on past the start of the window
RECURSIVE ScanBackwardPastStart(_, _)
ScanBackwardPastStart(st, batch) ==
  IF batch = <<>> THEN st
  ELSE LET msg == Head(batch)
           ts  == Ts(msg)
           raw == Append(st.raw, msg)
       IN IF InRange(ts) /\ ~Has(st.map, msg)
          THEN IF Len(st.map) + 1 >= max
               THEN [st EXCEPT !.raw = raw, !.map = Append(st.map, msg),
                               !.hit = TRUE, !.stop = ts]
               ELSE ScanBackwardPastStart(
                      [st EXCEPT !.raw = raw, !.cursor = msg,
                                 !.map = Append(st.map, msg)], Tail(batch))
          ELSE ScanBackwardPastStart([st EXCEPT !.raw = raw, !.cursor = msg],
                                     Tail(batch))

\* for (const msg of batch.values()) of the backward loop of expandFromAnchor
RECURSIVE ScanBackward(_, _)
ScanBackward(st, batch) ==
  IF batch = <<>> THEN st
  ELSE LET msg == Head(batch)
           ts  == Ts(msg)
           raw == Append(st.raw, msg)
       IN IF ts < startUTC
          THEN [st EXCEPT !.raw = raw, !.reached = TRUE, !.stop = ts]
          ELSE IF InRange(ts) /\ ~Has(st.map, msg)
          THEN IF Len(st.map) + 1 >= max
               THEN [st EXCEPT !.raw = raw, !.map = Append(st.map, msg),
                               !.hit = TRUE, !.stop = ts]
               ELSE ScanBackward([st EXCEPT !.raw = raw, !.cursor = msg,
                                            !.map = Append(st.map, msg)],
                                 Tail(batch))
          ELSE ScanBackward([st EXCEPT !.raw = raw, !.cursor = msg], Tail(batch))

\* fault: the forward loop leaves the batch at the first message beyond
\* endUTC, as in the array-based revision of expandFromAnchor
RECURSIVE ScanForwardStopsAtEnd(_, _)
ScanForwardStopsAtEnd(st, batch) ==
  IF batch = <<>> THEN st
  ELSE LET msg == Head(batch)
           ts  == Ts(msg)
           raw == Append(st.raw, msg)
       IN IF ts > endUTC
          THEN [st EXCEPT !.raw = raw, !.reached = TRUE,
                          !.stop = IF st.stop = NoTime THEN ts ELSE st.stop]
          ELSE IF InRange(ts) /\ ~Has(st.map, msg)
          THEN IF Len(st.map) + 1 >= max
               THEN [st EXCEPT !.raw = raw, !.beyond = FALSE,
                               !.map = Append(st.map, msg),
                               !.hit = TRUE, !.stop = ts]
               ELSE ScanForwardStopsAtEnd([st EXCEPT !.raw = raw, !.beyond = FALSE,
                                                     !.map = Append(st.map, msg)],
                                          Tail(batch))
          ELSE ScanForwardStopsAtEnd([st EXCEPT !.raw = raw, !.beyond = FALSE],
                                     Tail(batch))

\* for (const msg of batch.values()) of the forward loop of expandFromAnchor;
\* st.beyond is allMessagesBeyondBoundary
RECURSIVE ScanForward(_, _)
ScanForward(st, batch) ==
  IF batch = <<>> THEN st
  ELSE LET msg == Head(batch)
           ts  == Ts(msg)
           raw == Append(st.raw, msg)
       IN IF InRange(ts)
          THEN IF ~Has(st.map, msg)
               THEN IF Len(st.map) + 1 >= max
                    THEN [st EXCEPT !.raw = raw, !.beyond = FALSE,
                                    !.map = Append(st.map, msg),
                                    !.hit = TRUE, !.stop = ts]
                    ELSE ScanForward([st EXCEPT !.raw = raw, !.beyond = FALSE,
                                                !.map = Append(st.map, msg)],
                                     Tail(batch))
               ELSE ScanForward([st EXCEPT !.raw = raw, !.beyond = FALSE],
                                Tail(batch))
          ELSE IF ts > endUTC
          THEN ScanForward([st EXCEPT !.raw = raw, !.reached = TRUE,
                              !.stop = IF ~st.reached /\ st.stop = NoTime
                                       THEN ts ELSE st.stop],
                           Tail(batch))
          ELSE ScanForward([st EXCEPT !.raw = raw, !.beyond = FALSE], Tail(batch))

\* fault: fetchMessages sets hitLimit without recording stopTime
RECURSIVE ScanLinearNoStop(_, _)
ScanLinearNoStop(st, batch) ==
  IF batch = <<>> THEN st
  ELSE LET msg == Head(batch)
           ts  == Ts(msg)
       IN IF ts < startUTC THEN [st EXCEPT !.stop = ts]
          ELSE IF ts > endUTC
          THEN ScanLinearNoStop([st EXCEPT !.cursor = msg], Tail(batch))
          ELSE IF ~Has(st.map, msg)
          THEN IF Len(st.map) + 1 >= max
               THEN [st EXCEPT !.map = Append(st.map, msg), !.hit = TRUE]
               ELSE ScanLinearNoStop([st EXCEPT !.cursor = msg,
                                                !.map = Append(st.map, msg)],
                                     Tail(batch))
          ELSE ScanLinearNoStop([st EXCEPT !.cursor = msg], Tail(batch))

\* fault: fetchMessages skips a message beyond endUTC without moving beforeId
RECURSIVE ScanLinearStalls(_, _)
ScanLinearStalls(st, batch) ==
  IF batch = <<>> THEN st
  ELSE LET msg == Head(batch)
           ts  == Ts(msg)
       IN IF ts < startUTC THEN [st EXCEPT !.stop = ts]
          ELSE IF ts > endUTC
          THEN ScanLinearStalls(st, Tail(batch))
          ELSE IF ~Has(st.map, msg)
          THEN IF Len(st.map) + 1 >= max
               THEN [st EXCEPT !.map = Append(st.map, msg),
                               !.hit = TRUE, !.stop = ts]
               ELSE ScanLinearStalls([st EXCEPT !.cursor = msg,
                                                !.map = Append(st.map, msg)],
                                     Tail(batch))
          ELSE ScanLinearStalls([st EXCEPT !.cursor = msg], Tail(batch))

\* fault: fetchMessages drops the rest of a batch at the first message
\* beyond endUTC
RECURSIVE ScanLinearSkipsBatch(_, _)
ScanLinearSkipsBatch(st, batch) ==
  IF batch = <<>> THEN st
  ELSE LET msg == Head(batch)
           ts  == Ts(msg)
       IN IF ts < startUTC THEN [st EXCEPT !.stop = ts]
          ELSE IF ts > endUTC
          THEN [st EXCEPT !.cursor = batch[Len(batch)]]
          ELSE IF ~Has(st.map, msg)
          THEN IF Len(st.map) + 1 >= max
               THEN [st EXCEPT !.map = Append(st.map, msg),
                               !.hit = TRUE, !.stop = ts]
               ELSE ScanLinearSkipsBatch([st EXCEPT !.cursor = msg,
                                                    !.map = Append(st.map, msg)],
                                         Tail(batch))
          ELSE ScanLinearSkipsBatch([st EXCEPT !.cursor = msg], Tail(batch))

\* fault: fetchMessages collects into an array, without the has(msg.id) test
RECURSIVE ScanLinearNoDedup(_, _)
ScanLinearNoDedup(st, batch) ==
  IF batch = <<>> THEN st
  ELSE LET msg == Head(batch)
           ts  == Ts(msg)
       IN IF ts < startUTC THEN [st EXCEPT !.stop = ts]
          ELSE IF ts > endUTC
          THEN ScanLinearNoDedup([st EXCEPT !.cursor = msg], Tail(batch))
          ELSE IF Len(st.map) + 1 >= max
          THEN [st EXCEPT !.map = Append(st.map, msg),
                          !.hit = TRUE, !.stop = ts]
          ELSE ScanLinearNoDedup([st EXCEPT !.cursor = msg,
                                            !.map = Append(st.map, msg)],
                                 Tail(batch))

\* fault: fetchMessages tests size > max after adding a message
RECURSIVE ScanLinearLateLimit(_, _)
ScanLinearLateLimit(st, batch) ==
  IF batch = <<>> THEN st
  ELSE LET msg == Head(batch)
           ts  == Ts(msg)
       IN IF ts < startUTC THEN [st EXCEPT !.stop = ts]
          ELSE IF ts > endUTC
          THEN ScanLinearLateLimit([st EXCEPT !.cursor = msg], Tail(batch))
          ELSE IF ~Has(st.map, msg)
          THEN IF Len(st.map) + 1 > max
               THEN [st EXCEPT !.map = Append(st.map, msg),
                               !.hit = TRUE, !.stop = ts]
               ELSE ScanLinearLateLimit([st EXCEPT !.cursor = msg,
                                                   !.map = Append(st.map, msg)],
                                        Tail(batch))
          ELSE ScanLinearLateLimit([st EXCEPT !.cursor = msg], Tail(batch))

\* for (const msg of batch.values()) of fetchMessages
RECURSIVE ScanLinear(_, _)
ScanLinear(st, batch) ==
  IF batch = <<>> THEN st
  ELSE LET msg == Head(batch)
           ts  == Ts(msg)
       IN IF ts < startUTC THEN [st EXCEPT !.stop = ts]
          ELSE IF ts > endUTC
          THEN ScanLinear([st EXCEPT !.cursor = msg], Tail(batch))
          ELSE IF ~Has(st.map, msg)
          THEN IF Len(st.map) + 1 >= max
               THEN [st EXCEPT !.map = Append(st.map, msg),
                               !.hit = TRUE, !.stop = ts]
               ELSE ScanLinear([st EXCEPT !.cursor = msg,
                                          !.map = Append(st.map, msg)],
                               Tail(batch))
          ELSE ScanLinear([st EXCEPT !.cursor = msg], Tail(batch))


\* ------------------------------------------------------- local index
Channels == {"general", "ai"}
ThisChannel == "general"

\* new Date(ts).getFullYear() and .getMonth(): tick 0 lies in month
\* FirstMonth (0-based) of year 0, a month lasts TicksPerMonth ticks
MonthIndex(ts) == FirstMonth + (ts \div TicksPerMonth)
FullYear(ts) == MonthIndex(ts) \div MonthsPerYear
Month(ts) == MonthIndex(ts) % MonthsPerYear

Years == 0..FullYear(MaxTs)
FileKeys == Channels \X Years \X (1..MonthsPerYear)

\* the entry appendMessage writes as one JSON line, and JSON.parse of it
Entry(m) == [id |-> m, createdTimestamp |-> Ts(m)]

\* path.join(logsPath, channelId, year, `${month}.jsonl`) of appendMessage
FileOf(ch, m) == <<ch, FullYear(Ts(m)), Month(Ts(m)) + 1>>

\* fault: the month file is written anew with the one line
appendMessageOverwrites(files, ch, m) ==
  IF ~indexEnabled THEN files
  ELSE [files EXCEPT ![FileOf(ch, m)] = <<Entry(m)>>]

\* IndexService.appendMessage: one line at the end of the month file
appendMessage(files, ch, m) ==
  IF ~indexEnabled THEN files
  ELSE [files EXCEPT ![FileOf(ch, m)] = Append(@, Entry(m))]

\* the lines of one file that lie in the window, in file order
RECURSIVE InRangeLines(_, _, _)
InRangeLines(lines, s, e) ==
  IF lines = <<>> THEN <<>>
  ELSE IF Head(lines).createdTimestamp >= s /\ Head(lines).createdTimestamp <= e
  THEN <<Head(lines)>> \o InRangeLines(Tail(lines), s, e)
  ELSE InRangeLines(Tail(lines), s, e)

\* fault: the month cursor does not roll over into the next year
RECURSIVE ScanMonthsSameYear(_, _, _, _, _)
ScanMonthsSameYear(ch, year, month, s, e) ==
  IF year > FullYear(e) \/ (year = FullYear(e) /\ month > Month(e)) THEN <<>>
  ELSE InRangeLines(indexFiles[<<ch, year, month + 1>>], s, e)
       \o (IF month + 1 = MonthsPerYear
           THEN <<>>
           ELSE ScanMonthsSameYear(ch, year, month + 1, s, e))

\* while (cursor <= endCursor) of getMessagesByDateRange; cursor.setMonth(
\* cursor.getMonth() + 1) rolls over into January of the next year
RECURSIVE ScanMonths(_, _, _, _, _)
ScanMonths(ch, year, month, s, e) ==
  IF year > FullYear(e) \/ (year = FullYear(e) /\ month > Month(e)) THEN <<>>
  ELSE InRangeLines(indexFiles[<<ch, year, month + 1>>], s, e)
       \o (IF month + 1 = MonthsPerYear
           THEN ScanMonths(ch, year + 1, 0, s, e)
           ELSE ScanMonths(ch, year, month + 1, s, e))

RECURSIVE InsertEntry(_, _)
InsertEntry(s, x) ==
  IF s = <<>> THEN <<x>>
  ELSE IF Head(s).createdTimestamp <= x.createdTimestamp
  THEN <<Head(s)>> \o InsertEntry(Tail(s), x)
  ELSE <<x>> \o s

\* results.sort((a, b) => a.createdTimestamp - b.createdTimestamp)
RECURSIVE SortEntries(_)
SortEntries(s) ==
  IF s = <<>> THEN <<>>
  ELSE InsertEntry(SortEntries(SubSeq(s, 1, Len(s) - 1)), s[Len(s)])

\* IndexService.getMessagesByDateRange(channelId, { startUTC, endUTC })
getMessagesByDateRange(ch, s, e) ==
  IF ~indexEnabled THEN <<>>
  ELSE SortEntries(ScanMonths(ch, FullYear(s), Month(s), s, e))

\* ------------------------------------------- the index on a damaged disk
\* What can be wrong with a month file when getMessagesByDateRange reads
\* it: fs.open fails (the file is missing or may not be read), lines are
\* not valid JSON (a line torn by an interrupted append), or the stream
\* fails after it delivered some of the lines.
Damage(opens, invalid, delivered) ==
  [opens |-> opens, invalid |-> invalid, delivered |-> delivered]

Intact == Damage(TRUE, {}, MaxRecs)
Missing == Damage(FALSE, {}, MaxRecs)
Torn(i) == Damage(TRUE, {i}, MaxRecs)
Cut(n) == Damage(TRUE, {}, n)

Damages ==
  {Intact, Missing} \cup {Torn(i) : i \in 1..MaxRecs}
    \cup {Cut(n) : n \in 0..(MaxRecs - 1)}

\* for await (const line of rl) with its try around JSON.parse and the
\* range test: the lines pushed to results, and whether the stream threw
RECURSIVE PushLines(_, _, _, _, _)
PushLines(lines, i, d, s, e) ==
  IF i > Len(lines) \/ i > d.delivered THEN <<>>
  ELSE IF i \in d.invalid THEN PushLines(lines, i + 1, d, s, e)
  ELSE IF lines[i].createdTimestamp >= s /\ lines[i].createdTimestamp <= e
  THEN <<lines[i]>> \o PushLines(lines, i + 1, d, s, e)
  ELSE PushLines(lines, i + 1, d, s, e)

\* the try around fs.open and the read loop of one month file
ReadMonth(lines, d, s, e) ==
  IF ~d.opens THEN [pushed |-> <<>>, threw |-> TRUE]
  ELSE [pushed |-> PushLines(lines, 1, d, s, e),
        threw |-> d.delivered < Len(lines)]

\* fault: an error of one month file ends the scan
RECURSIVE ScanDiskStopsAtBadFile(_, _, _, _, _, _)
ScanDiskStopsAtBadFile(ch, year, month, s, e, dmg) ==
  IF year > FullYear(e) \/ (year = FullYear(e) /\ month > Month(e)) THEN <<>>
  ELSE LET k == <<ch, year, month + 1>>
           read == ReadMonth(indexFiles[k], dmg[k], s, e)
       IN read.pushed
          \o (IF read.threw THEN <<>>
              ELSE IF month + 1 = MonthsPerYear
              THEN ScanDiskStopsAtBadFile(ch, year + 1, 0, s, e, dmg)
              ELSE ScanDiskStopsAtBadFile(ch, year, month + 1, s, e, dmg))

\* while (cursor <= endCursor) with the catch that swallows the error of a
\* month file; cursor.setMonth runs after the catch
RECURSIVE ScanDisk(_, _, _, _, _, _)
ScanDisk(ch, year, month, s, e, dmg) ==
  IF year > FullYear(e) \/ (year = FullYear(e) /\ month > Month(e)) THEN <<>>
  ELSE LET k == <<ch, year, month + 1>>
           read == ReadMonth(indexFiles[k], dmg[k], s, e)
       IN read.pushed
          \o (IF month + 1 = MonthsPerYear
              THEN ScanDisk(ch, year + 1, 0, s, e, dmg)
              ELSE ScanDisk(ch, year, month + 1, s, e, dmg))

\* the month files the loop visits
RECURSIVE Visited(_, _, _, _)
Visited(ch, year, month, e) ==
  IF year > FullYear(e) \/ (year = FullYear(e) /\ month > Month(e)) THEN {}
  ELSE {<<ch, year, month + 1>>}
       \cup (IF month + 1 = MonthsPerYear
             THEN Visited(ch, year + 1, 0, e)
             ELSE Visited(ch, year, month + 1, e))

\* a line can only be torn, and a read can only be cut short, where the
\* file has lines
Applies(d, lines) ==
  /\ d.invalid \subseteq 1..Len(lines)
  /\ d.delivered < Len(lines) \/ d.delivered = MaxRecs

NoDamage == [k \in FileKeys |-> Intact]
NoScan == [channel |-> "none", damage |-> NoDamage, sorted |-> <<>>,
           threw |-> FALSE]

\* getMessagesByDateRange over files with the damage dmg.  The errors of
\* fs.open, of the stream and of JSON.parse are caught inside the loop; the
\* whole body lies in an outer try whose catch returns, so the call never
\* rejects
ScanIndex(ch, dmg) ==
  [channel |-> ch, damage |-> dmg, threw |-> FALSE,
   sorted |-> IF ~indexEnabled THEN <<>>
              ELSE SortEntries(ScanDisk(ch, FullYear(startUTC), Month(startUTC),
                                        startUTC, endUTC, dmg))]

\* ------------------------------------------------------------ results
\* the entry functions that run fetchMessagesOptimized
Optimized == entry \in {"fetchMessagesForContext", "indexHistoricMessages"}

\* { sorted, rawLog, hitLimit, stopTime, apiCalls } of expandFromAnchor;
\* the anchor path of fetchMessagesOptimized adds its own call and fetchTime
ExpandResult(st, calls, v, count) ==
  [sorted |-> SortByTimestamp(st.map), rawLog |-> st.raw, hitLimit |-> st.hit,
   stopTime |-> st.stop, hasApiCalls |-> TRUE,
   apiCalls |-> IF v = "anchor" THEN count + calls ELSE calls,
   fetchTime |-> v = "anchor", usedFallback |-> FALSE, hadError |-> FALSE,
   noMessagesFound |-> FALSE]

\* { sorted, rawLog, hitLimit, stopTime } of fetchMessages; the fallbacks of
\* fetchMessagesOptimized add fetchTime, usedFallback and hadError
LinearResult(st) ==
  [sorted |-> SortByTimestamp(st.map), rawLog |-> st.raw, hitLimit |-> st.hit,
   stopTime |-> st.stop, hasApiCalls |-> FALSE, apiCalls |-> 0,
   fetchTime |-> via \in {"noanchor", "error"},
   usedFallback |-> via \in {"noanchor", "error"}, hadError |-> via = "error",
   noMessagesFound |-> FALSE]

\* the entry function resolves with r; fetchMessagesForContext flags an
\* empty date-range result
Resolve(e, r) ==
  /\ pc' = "done"
  /\ result' = IF e = "fetchMessagesForContext"
               THEN [r EXCEPT !.noMessagesFound = (r.sorted = <<>>)] ELSE r
  /\ thrown' = NoError

\* the entry function rejects; fetchMessagesForContext rethrows its own error
Reject(e) ==
  /\ pc' = "failed"
  /\ result' = NoResult
  /\ thrown' = IF e = "fetchMessagesForContext"
               THEN FetchFailure ELSE RemoteCallError

Suspend(at) == pc' = at /\ UNCHANGED <<result, thrown>>

Locals(st, calls, before, rsb, after, reb) ==
  /\ allMessagesMap' = st.map
  /\ allRaw' = st.raw
  /\ hitLimit' = st.hit
  /\ stopTime' = st.stop
  /\ apiCalls' = calls
  /\ beforeId' = before
  /\ reachedStartBoundary' = rsb
  /\ afterId' = after
  /\ reachedEndBoundary' = reb

\* fault: the Map, the log and the flags outlive the call that filled them
Stale == [map |-> allMessagesMap, raw |-> allRaw, hit |-> hitLimit,
          stop |-> stopTime, cursor |-> NoId, reached |-> FALSE,
          beyond |-> TRUE]

Fresh == [map |-> <<>>, raw |-> <<>>, hit |-> FALSE, stop |-> NoTime,
          cursor |-> NoId, reached |-> FALSE, beyond |-> TRUE]

Current(cursor, reached) ==
  [map |-> allMessagesMap, raw |-> allRaw, hit |-> hitLimit, stop |-> stopTime,
   cursor |-> cursor, reached |-> reached, beyond |-> TRUE]

\* ------------------------------------------------------------ actions
\* fault: expandFromAnchor seeds the Map with the anchor wherever it lies
EnterExpandSeedsAlways(e, v, count, a) ==
  LET st == [Fresh EXCEPT !.raw = <<a>>, !.map = <<a>>]
  IN /\ anchorMessage' = a
     /\ IF Len(st.map) < max
        THEN /\ Locals(st, 0, a, FALSE, NoId, FALSE)
             /\ Suspend("backward")
        ELSE /\ Locals(st, 0, a, FALSE, a, FALSE)
             /\ Resolve(e, ExpandResult(st, 0, v, count))

\* expandFromAnchor up to its first await: seeds the Map with an in-range
\* anchor and enters the backward loop, or returns when max is already met
EnterExpand(e, v, count, a) ==
  LET st == [Fresh EXCEPT !.raw = <<a>>,
                          !.map = IF InRange(Ts(a)) THEN <<a>> ELSE <<>>]
  IN /\ anchorMessage' = a
     /\ IF Len(st.map) < max
        THEN /\ Locals(st, 0, a, FALSE, NoId, FALSE)
             /\ Suspend("backward")
        ELSE /\ Locals(st, 0, a, FALSE, a, FALSE)
             /\ Resolve(e, ExpandResult(st, 0, v, count))

\* fetchMessages up to its first await
EnterLinear ==
  /\ anchorMessage' = NoId
  /\ Locals(Fresh, 0, NoId, FALSE, NoId, FALSE)
  /\ Suspend("linear")

\* the caller invokes expandFromAnchor with a message of the channel
CallExpand ==
  /\ pc = "idle"
  /\ \E a \in store :
       /\ entry' = "expandFromAnchor"
       /\ via' = "direct"
       /\ EnterExpand("expandFromAnchor", "direct", 0, a)
  /\ UNCHANGED <<indexVars, store, startUTC, endUTC, max, apiCallCount, searchAttempts,
                 remoteCalls, optError, fallbacks, fallbackErrored>>

\* the caller invokes fetchMessages
CallLinear ==
  /\ pc = "idle"
  /\ entry' = "fetchMessages"
  /\ via' = "direct"
  /\ EnterLinear
  /\ UNCHANGED <<indexVars, store, startUTC, endUTC, max, apiCallCount, searchAttempts,
                 remoteCalls, optError, fallbacks, fallbackErrored>>

\* fault: the catch of fetchMessagesOptimized rethrows
CatchAndRethrow(kind) ==
  /\ via' = "error"
  /\ optError' = kind
  /\ pc' = "failed"
  /\ result' = NoResult
  /\ thrown' = FetchFailure
  /\ UNCHANGED <<fallbacks, anchorMessage, allMessagesMap, allRaw, hitLimit,
                 stopTime, apiCalls, beforeId, reachedStartBoundary, afterId,
                 reachedEndBoundary>>

\* catch (error) of fetchMessagesOptimized: the linear fallback starts
CatchAndFallBack(kind) ==
  /\ via' = "error"
  /\ optError' = kind
  /\ fallbacks' = fallbacks + 1
  /\ EnterLinear

\* MessageService.fetchMessagesForContext(dateRange) with a date range:
\* fetchMessagesOptimized up to its first await
CallContext ==
  /\ pc = "idle"
  /\ entry' = "fetchMessagesForContext"
  /\ apiCallCount' = 0
  /\ searchAttempts' = 0
  /\ IF SnowflakeThrows(MidDate(startUTC, endUTC))
     THEN CatchAndFallBack("encoding")
     ELSE /\ via' = "search"
          /\ anchorMessage' = NoId
          /\ Locals(Fresh, 0, NoId, FALSE, NoId, FALSE)
          /\ Suspend("around")
          /\ UNCHANGED <<optError, fallbacks>>
  /\ UNCHANGED <<indexVars, store, startUTC, endUTC, max, remoteCalls, fallbackErrored>>

\* fault: the search gives up after the initial batch
NextAttemptGivesUp(attempts) ==
  /\ searchAttempts' = attempts
  /\ via' = "noanchor"
  /\ fallbacks' = fallbacks + 1
  /\ EnterLinear
  /\ UNCHANGED optError

\* the retry loop of fetchMessagesOptimized up to its next await
NextAttempt(attempts) ==
  /\ searchAttempts' = attempts
  /\ IF attempts < maxAttempts
     THEN IF SnowflakeThrows(MidDate(startUTC - OneDay, endUTC + OneDay))
          THEN CatchAndFallBack("encoding")
          ELSE /\ via' = "search"
               /\ Suspend("retry")
               /\ UNCHANGED <<anchorMessage, allMessagesMap, allRaw, hitLimit,
                              stopTime, apiCalls, beforeId, reachedStartBoundary,
                              afterId, reachedEndBoundary, optError, fallbacks>>
     ELSE /\ via' = "noanchor"
          /\ fallbacks' = fallbacks + 1
          /\ EnterLinear
          /\ UNCHANGED optError

\* the initial fetch({ around }) resolves
AroundStep ==
  /\ pc = "around"
  /\ remoteCalls < CallCap
  /\ LET batch == FetchAround(dateToSnowflake(MidDate(startUTC, endUTC)))
         found == findAnchorMessage(batch)
     IN /\ apiCallCount' = apiCallCount + 1
        /\ IF found # NoId
           THEN /\ via' = "anchor"
                /\ EnterExpand(entry, "anchor", apiCallCount + 1, found)
                /\ UNCHANGED <<searchAttempts, optError, fallbacks>>
           ELSE NextAttempt(0)
  /\ remoteCalls' = remoteCalls + 1
  /\ UNCHANGED <<indexVars, store, startUTC, endUTC, max, entry, fallbackErrored>>

\* a retry fetch({ around }) resolves
RetryStep ==
  /\ pc = "retry"
  /\ remoteCalls < CallCap
  /\ LET batch == FetchAround(dateToSnowflake(
                     MidDate(startUTC - OneDay, endUTC + OneDay)))
         nearest == NearestMessage(batch)
     IN IF nearest # NoId
        THEN /\ via' = "nearest"
             /\ EnterExpand(entry, "nearest", apiCallCount, nearest)
             /\ UNCHANGED <<searchAttempts, optError, fallbacks>>
        ELSE NextAttempt(searchAttempts + 1)
  /\ remoteCalls' = remoteCalls + 1
  /\ UNCHANGED <<indexVars, store, startUTC, endUTC, max, entry, apiCallCount,
                 fallbackErrored>>

\* fault: the forward loop is entered whatever the backward loop found
BackwardStepThenForward(batch) ==
  /\ pc = "backward"
  /\ remoteCalls < CallCap
  /\ LET st == ScanBackward(Current(beforeId, reachedStartBoundary), batch)
         again == /\ batch # <<>>
                  /\ ~st.hit
                  /\ Len(st.map) < max
                  /\ ~st.reached
     IN IF again
        THEN /\ Locals(st, apiCalls + 1, st.cursor, st.reached, NoId, FALSE)
             /\ Suspend("backward")
        ELSE /\ Locals(st, apiCalls + 1, st.cursor, st.reached,
                       anchorMessage, FALSE)
             /\ Suspend("forward")
  /\ remoteCalls' = remoteCalls + 1
  /\ UNCHANGED <<indexVars, store, startUTC, endUTC, max, entry, via, anchorMessage,
                 apiCallCount, searchAttempts, optError, fallbacks,
                 fallbackErrored>>

\* one fetch({ before }) of the backward loop resolves
BackwardStepWith(batch) ==
  /\ pc = "backward"
  /\ remoteCalls < CallCap
  /\ LET st == ScanBackward(Current(beforeId, reachedStartBoundary), batch)
         again == /\ batch # <<>>
                  /\ ~st.hit
                  /\ Len(st.map) < max
                  /\ ~st.reached
     IN IF again
        THEN /\ Locals(st, apiCalls + 1, st.cursor, st.reached, NoId, FALSE)
             /\ Suspend("backward")
        ELSE IF Len(st.map) < max /\ ~st.hit
        THEN /\ Locals(st, apiCalls + 1, st.cursor, st.reached,
                       anchorMessage, FALSE)
             /\ Suspend("forward")
        ELSE /\ Locals(st, apiCalls + 1, st.cursor, st.reached,
                       anchorMessage, FALSE)
             /\ Resolve(entry, ExpandResult(st, apiCalls + 1, via, apiCallCount))
  /\ remoteCalls' = remoteCalls + 1
  /\ UNCHANGED <<indexVars, store, startUTC, endUTC, max, entry, via, anchorMessage,
                 apiCallCount, searchAttempts, optError, fallbacks,
                 fallbackErrored>>

\* the store answers with any batch it may
BackwardStep ==
  \E batch \in FetchBefore(beforeId) : BackwardStepWith(batch)

\* one fetch({ after }) of the forward loop resolves
ForwardStepWith(batch) ==
  /\ pc = "forward"
  /\ remoteCalls < CallCap
  /\ LET st == ScanForward(Current(afterId, reachedEndBoundary), batch)
         newestMessageId == IF batch = <<>> THEN afterId ELSE Head(batch)
         again == /\ batch # <<>>
                  /\ ~st.hit
                  /\ ~(st.beyond /\ st.reached)
                  /\ Len(st.map) < max
     IN /\ Locals(st, apiCalls + 1, beforeId, reachedStartBoundary,
                  newestMessageId, st.reached)
        /\ IF again THEN Suspend("forward")
           ELSE Resolve(entry, ExpandResult(st, apiCalls + 1, via, apiCallCount))
  /\ remoteCalls' = remoteCalls + 1
  /\ UNCHANGED <<indexVars, store, startUTC, endUTC, max, entry, via, anchorMessage,
                 apiCallCount, searchAttempts, optError, fallbacks,
                 fallbackErrored>>

\* the store answers with any batch it may
ForwardStep ==
  \E batch \in FetchAfter(afterId) : ForwardStepWith(batch)

\* one fetch({ before }) of fetchMessages resolves
LinearStepWith(batch) ==
  /\ pc = "linear"
  /\ remoteCalls < CallCap
  /\ LET st == ScanLinear([Current(beforeId, FALSE)
                             EXCEPT !.raw = allRaw \o batch], batch)
         again == /\ batch # <<>>
                  /\ ~st.hit
                  /\ ~(Ts(batch[Len(batch)]) < startUTC)
                  /\ Len(st.map) < max
     IN /\ Locals(st, apiCalls, st.cursor, FALSE, NoId, FALSE)
        /\ IF again THEN Suspend("linear")
           ELSE Resolve(entry, LinearResult(st))
  /\ remoteCalls' = remoteCalls + 1
  /\ UNCHANGED <<indexVars, store, startUTC, endUTC, max, entry, via, anchorMessage,
                 apiCallCount, searchAttempts, optError, fallbacks,
                 fallbackErrored>>

\* the store answers with any batch it may
LinearStep ==
  \E batch \in FetchBefore(beforeId) : LinearStepWith(batch)

\* a channel.messages.fetch of the optimized path rejects: the try block of
\* fetchMessagesOptimized catches it; a bare expandFromAnchor rejects
OptimizedCallFails ==
  /\ pc \in {"around", "retry", "backward", "forward"}
  /\ IF Optimized
     THEN /\ CatchAndFallBack("remote")
          /\ UNCHANGED <<entry, apiCallCount, searchAttempts>>
     ELSE /\ Reject(entry)
          /\ UNCHANGED <<entry, via, anchorMessage, allMessagesMap, allRaw,
                         hitLimit, stopTime, apiCalls, beforeId,
                         reachedStartBoundary, afterId, reachedEndBoundary,
                         apiCallCount, searchAttempts, optError, fallbacks>>
  /\ remoteCalls' = remoteCalls + 1
  /\ UNCHANGED <<indexVars, store, startUTC, endUTC, max, fallbackErrored>>

\* a channel.messages.fetch of fetchMessages rejects.  The no-anchor fallback
\* is awaited inside the try of fetchMessagesOptimized, so its catch runs
\* fetchMessages again; from the catch, or from a bare fetchMessages, the
\* error leaves the function
LinearCallFails ==
  /\ pc = "linear"
  /\ IF Optimized /\ via = "noanchor"
     THEN /\ CatchAndFallBack("fallback")
          /\ UNCHANGED <<entry, apiCallCount, searchAttempts>>
     ELSE /\ Reject(entry)
          /\ UNCHANGED <<entry, via, anchorMessage, allMessagesMap, allRaw,
                         hitLimit, stopTime, apiCalls, beforeId,
                         reachedStartBoundary, afterId, reachedEndBoundary,
                         apiCallCount, searchAttempts, optError, fallbacks>>
  /\ fallbackErrored' = (via \in {"noanchor", "error"})
  /\ remoteCalls' = remoteCalls + 1
  /\ UNCHANGED <<indexVars, store, startUTC, endUTC, max>>

\* the caller has consumed the outcome; the call's locals are gone
Forget ==
  /\ pc \in {"done", "failed"}
  /\ pc' = "idle"
  /\ entry' = "none"
  /\ via' = "none"
  /\ anchorMessage' = NoId
  /\ Locals(Fresh, 0, NoId, FALSE, NoId, FALSE)
  /\ apiCallCount' = 0
  /\ searchAttempts' = 0
  /\ result' = NoResult
  /\ thrown' = NoError
  /\ remoteCalls' = 0
  /\ optError' = "none"
  /\ fallbacks' = 0
  /\ fallbackErrored' = FALSE

Return ==
  /\ Forget
  /\ UNCHANGED <<indexVars, store, startUTC, endUTC, max>>

\* the caller keeps the records it was given and the call's locals are gone
ReturnRemembered ==
  /\ pc = "done"
  /\ Forget
  /\ previous' = <<result.sorted>>
  /\ UNCHANGED <<store, startUTC, endUTC, max, indexEnabled, indexFiles,
                 appended, queried, writers, written, parseVars, encodeVars,
                 overlap, zoneVars, literalVars, scanVars, historicVars, botVars>>

\* the steps of a retrieval against a store that answers the same request
\* with the same batch every time
BackwardStepSame == BackwardStepWith(FetchBeforeAt(beforeId, overlap))
ForwardStepSame == ForwardStepWith(FetchAfterAt(afterId, overlap))
LinearStepSame == LinearStepWith(FetchBeforeAt(beforeId, overlap))

\* no retrieval is running
Idle ==
  /\ pc = "idle"
  /\ entry = "none"
  /\ via = "none"
  /\ anchorMessage = NoId
  /\ allMessagesMap = <<>>
  /\ allRaw = <<>>
  /\ hitLimit = FALSE
  /\ stopTime = NoTime
  /\ apiCalls = 0
  /\ beforeId = NoId
  /\ reachedStartBoundary = FALSE
  /\ afterId = NoId
  /\ reachedEndBoundary = FALSE
  /\ apiCallCount = 0
  /\ searchAttempts = 0
  /\ result = NoResult
  /\ thrown = NoError
  /\ remoteCalls = 0
  /\ optError = "none"
  /\ fallbacks = 0
  /\ fallbackErrored = FALSE

\* --------------------------------------------------- date-range tokens
\* Instants are hours since 00:00 UTC of civil day 0; the process runs in a
\* zone that is OffsetEST hours behind UTC, and OffsetEDT hours behind
\* between 02:00 local of civil day DstFirst and 02:00 local of DstLast.
Days == 0..MaxDay

dstStart == DstFirst * HoursPerDay + TransitionHour + OffsetEST
dstEnd == DstLast * HoursPerDay + TransitionHour + OffsetEDT

\* the zone's offset at instant t
OffsetAt(t) == IF dstStart <= t /\ t < dstEnd THEN OffsetEDT ELSE OffsetEST

\* getFullYear(), getMonth(), getDate() of a Date: its civil day in the
\* process's zone
LocalDay(t) == (t - OffsetAt(t)) \div HoursPerDay

\* local time read with the winter offset all year
LocalTimeNoDst(d, h) == d * HoursPerDay + h + OffsetEST

\* new Date(year, month, date, hours, ...).getTime(): the instant at which
\* the local clock of civil day d shows the hour h
LocalTime(d, h) ==
  LET est == d * HoursPerDay + h + OffsetEST
  IN IF dstStart <= est /\ est < dstEnd
     THEN d * HoursPerDay + h + OffsetEDT
     ELSE est

LastHour == HoursPerDay - 1

Instants == OffsetEST..LocalTime(MaxDay, LastHour)

\* one side of a token: the word Today, a date literal, or nothing
Today == [kind |-> "today", day |-> 0]
DateLiteral(d) == [kind |-> "date", day |-> d]
Absent == [kind |-> "absent", day |-> 0]

Sides == {Today} \cup {DateLiteral(d) : d \in Days}

\* a text without a token
NoToken == [left |-> Absent, right |-> Absent]

Tokens == {[left |-> l, right |-> r] : l \in Sides, r \in Sides \cup {Absent}}
          \cup {NoToken}

Pending == [state |-> "pending", startUTC |-> 0, endUTC |-> 0]
Null == [state |-> "null", startUTC |-> 0, endUTC |-> 0]
Window(s, e) == [state |-> "window", startUTC |-> s, endUTC |-> e]

\* parseDate: Today is the current instant, a date literal is read by the
\* Date constructor as local midnight of its day
parseDate(side, clock) ==
  IF side.kind = "today" THEN clock ELSE LocalTime(side.day, 0)

\* parseDateRange without its final check
ValidateNothing(s, e) == Window(s, e)

\* the final check of parseDateRange
Validate(s, e) == IF s > e THEN Null ELSE Window(s, e)

parseDateRange(token, clock) ==
  IF token.left.kind = "absent" THEN Null
  ELSE IF token.right.kind = "absent"
  THEN LET parsedDate == parseDate(token.left, clock)
       IN Validate(LocalTime(LocalDay(parsedDate), 0),
                   LocalTime(LocalDay(parsedDate), LastHour))
  ELSE LET startDate == parseDate(token.left, clock)
           endDate == parseDate(token.right, clock)
           leftStart == LocalTime(LocalDay(startDate), 0)
           rightEnd == IF token.right.kind = "today"
                       THEN endDate
                       ELSE LocalTime(LocalDay(endDate), LastHour)
       IN Validate(leftStart, rightEnd)

\* a mention is read at some instant and its text is parsed
ParseDateRange ==
  /\ window = Pending
  /\ window' = parseDateRange(content, now)
  /\ UNCHANGED <<fetchVars, indexEnabled, indexFiles, appended, queried,
                 writers, written, content, now, encodeVars, replayVars, zoneVars, literalVars, scanVars, historicVars, botVars>>

\* ------------------------------------------------ dateToSnowflake in ms
\* The source computes the id as a Number and prints it: the product
\* timeSinceEpoch * 4194304 is exact, since it only moves the exponent, but
\* toString prints the shortest decimal that reads back as the same Number
\* and fills the remaining places with zeros.
RECURSIVE Pow2(_)
Pow2(n) == IF n = 0 THEN 1 ELSE 2 * Pow2(n - 1)

\* the binary exponent of x: x = m * 2^e with m < 2^MantissaBits
Exponent(x) ==
  CHOOSE e \in 0..MantissaBits :
    /\ x < Pow2(MantissaBits + e)
    /\ e > 0 => x >= Pow2(MantissaBits + e - 1)

\* the decimal y reads back as the Number x: y is nearer to x than to its
\* neighbours, a tie going to the Number with the even mantissa
ReadsBackAs(y, x) ==
  LET e == Exponent(x)
      up == Pow2(e)
      m == x \div up
      down == IF e > 0 /\ m = Pow2(MantissaBits - 1) THEN up \div 2 ELSE up
  IN \/ 2 * x - down < 2 * y /\ 2 * y < 2 * x + up
     \/ m % 2 = 0 /\ 2 * y \in {2 * x - down, 2 * x + up}

\* the number of digits of y up to its last non-zero digit
RECURSIVE SignificantDigits(_)
SignificantDigits(y) ==
  IF y < 10 THEN 1
  ELSE IF y % 10 = 0 THEN SignificantDigits(y \div 10)
  ELSE 1 + SignificantDigits(y \div 10)

\* Number.prototype.toString of a non-negative integer below 10^21
NumberToString(x) ==
  LET near == {y \in 0..(x + Pow2(Exponent(x))) : ReadsBackAs(y, x)}
      short == {y \in near :
                  \A z \in near : SignificantDigits(y) <= SignificantDigits(z)}
  IN CHOOSE y \in short : \A z \in short : Abs(y - x) <= Abs(z - x)

NotEncoded == [state |-> "pending", id |-> 0]
EncodingThrew == [state |-> "thrown", id |-> 0]

EncodingThrows(d) == d < DISCORD_EPOCH

\* the id string dateToSnowflake returns for a date at or after the epoch
Snowflake(d) == NumberToString((d - DISCORD_EPOCH) * Increments)

\* one call of dateToSnowflake
DateToSnowflake ==
  /\ snowflake = NotEncoded
  /\ snowflake' = IF EncodingThrows(date)
                  THEN EncodingThrew
                  ELSE [state |-> "id", id |-> Snowflake(date)]
  /\ UNCHANGED <<fetchVars, indexEnabled, indexFiles, appended, queried,
                 writers, written, parseVars, date, replayVars, zoneVars, literalVars, scanVars, historicVars, botVars>>

\* no query has been answered since the last append
NoQuery == [channel |-> "none", sorted |-> <<>>]

\* ---------------------------------------------------------------------
\* isEDT and nyToUTC (second revision of messageUtils.js), on the civil
\* calendar of one year.  A local date is a month (numbered from 0 as
\* Date numbers them), a day of the month and an hour; the weekday of
\* March 1 is the one fact about the year the computation depends on.
\* ---------------------------------------------------------------------
March == 2
November == 10
DaysPerWeek == 7
MaxCivilDay == 15

MonthLengths == <<31, 28, 31, 30, 31, 30, 31, 31, 30, 31, 30, 31>>

RECURSIVE DaysBefore(_)
\* Days of the year that lie before the first day of month m.
DaysBefore(m) == IF m = 0 THEN 0 ELSE DaysBefore(m - 1) + MonthLengths[m]

\* getTime of new Date(year, month, day, hour), in hours since the year began.
getTime(d) == (DaysBefore(d.month) + d.day - 1) * HoursPerDay + d.hour

\* getDay of new Date(year, month, 1) for a month from March on, in a
\* year whose March 1 falls on weekday w.
getDay(month, w) == (w + DaysBefore(month) - DaysBefore(March)) % DaysPerWeek

Weekdays == 0..(DaysPerWeek - 1)
CivilMonths == {0, March, 6, November, 11}
CivilHours == {0, TransitionHour - 1, TransitionHour, TransitionHour + 1, HoursPerDay - 1}
CivilDates == [month : CivilMonths, day : 1..MaxCivilDay, hour : CivilHours]

CivilDate(m, d, h) == [month |-> m, day |-> d, hour |-> h]

isEDT(d, w) ==
  LET secondSundayMarch == 14 - getDay(March, w)
      start == CivilDate(March, secondSundayMarch, TransitionHour)
      dayOfWeekNov == getDay(November, w)
      firstSundayNovember == 1 + (DaysPerWeek - dayOfWeekNov)
      end == CivilDate(November, firstSundayNovember, TransitionHour)
  IN getTime(d) >= getTime(start) /\ getTime(d) < getTime(end)

nyToUTC(d, w) ==
  LET offset == IF isEDT(d, w) THEN OffsetEDT ELSE OffsetEST
  IN [state |-> "done", edt |-> isEDT(d, w), time |-> getTime(d) + offset]

NotConverted == [state |-> "pending", edt |-> FALSE, time |-> 0]

NoConversion ==
  /\ dayOfWeek = 0
  /\ nyDate = CivilDate(0, 1, 0)
  /\ utcDate = NotConverted

NyToUTC ==
  /\ utcDate = NotConverted
  /\ utcDate' = nyToUTC(nyDate, dayOfWeek)
  /\ UNCHANGED <<fetchVars, indexEnabled, indexFiles, appended, queried,
                 writers, written, parseVars, encodeVars, replayVars,
                 dayOfWeek, nyDate, literalVars, scanVars, historicVars, botVars>>

\* ---------------------------------------------------------------------
\* parseDate on a date literal: the three methods it tries in turn.
\* A literal either has the form N1/N2/YYYY or not; a date is counted in
\* days from January 1 of the year the literal names.
\* ---------------------------------------------------------------------
MaxFirst == 14
MaxSecond == 32
DaysPerYear == 365
MaxMonth == 12
MaxDayOfMonth == 31

\* new Date(year, monthIndex, day): month and day outside their ranges
\* carry into the neighbouring months and years; the result is never NaN.
MakeDate(monthIndex, day) ==
  [kind |-> "date",
   day |-> (monthIndex \div MonthsPerYear) * DaysPerYear
             + DaysBefore(monthIndex % MonthsPerYear) + day - 1]

InvalidDate == [kind |-> "invalid", day |-> 0]
NullDate == [kind |-> "null", day |-> 0]
isNaN(d) == d.kind = "invalid"

\* Whether new Date(dateStr) reads N1/N2/YYYY: as month/day/year, with the
\* month within 1..12 and the day within 1..31.
DirectlyReadable(first, second) ==
  first \in 1..MaxMonth /\ second \in 1..MaxDayOfMonth

Slashed(first, second) ==
  [form |-> "N1/N2/YYYY", first |-> first, second |-> second,
   readable |-> DirectlyReadable(first, second)]

\* A string of digits and slashes of another form; some are read by
\* new Date (a bare year), some are not.
Unslashed(readable) ==
  [form |-> "other", first |-> 0, second |-> 0, readable |-> readable]

Literals ==
  {Slashed(f, s) : f \in 0..MaxFirst, s \in 0..MaxSecond}
    \cup {Unslashed(r) : r \in BOOLEAN}

\* Method 1: new Date(dateStr).
Method1(l) ==
  IF ~l.readable THEN InvalidDate
  ELSE IF l.form = "N1/N2/YYYY" THEN MakeDate(l.first - 1, l.second)
  ELSE MakeDate(0, 1)

\* parseDate for a literal other than Today.
parseDateMethods(l) ==
  LET mmddyyyy == l.form = "N1/N2/YYYY"
      method2 == MakeDate(l.first - 1, l.second)
      method3 == MakeDate(l.second - 1, l.first)
  IN IF ~isNaN(Method1(l)) THEN Method1(l)
     ELSE IF mmddyyyy /\ ~isNaN(method2) THEN method2
     ELSE IF mmddyyyy /\ l.first > MaxMonth /\ ~isNaN(method3) THEN method3
     ELSE NullDate

NotParsed == [state |-> "pending", date |-> NullDate]

NoLiteral ==
  /\ dateStr = Unslashed(FALSE)
  /\ returned = NotParsed

ParseDate ==
  /\ returned = NotParsed
  /\ returned' = [state |-> "done", date |-> parseDateMethods(dateStr)]
  /\ UNCHANGED <<fetchVars, indexEnabled, indexFiles, appended, queried,
                 writers, written, parseVars, encodeVars, replayVars,
                 zoneVars, dateStr, scanVars, historicVars, botVars>>

\* ---------------------------------------------------------------------
\* IndexService.indexHistoricMessages: fetchMessagesOptimized with no
\* limit, one appendMessage per record of its rawLog, and after a fallback
\* a fetchMessages of its own whose rawLog is appended as well.
\* ---------------------------------------------------------------------
\* the bot before any message, buildOpenAIInput call or context command
NoMessage == [authorBot |-> FALSE, text |-> <<>>, token |-> "none",
              mentionsBot |-> FALSE, roles |-> {}]
NoContext == [global |-> {}, users |-> {}]
NotFetched == [sorted |-> -1, hitLimit |-> FALSE, noMessagesFound |-> FALSE]
NotHandling ==
  /\ incoming = NoMessage
  /\ stage = "idle"
  /\ dispatched = <<>>
  /\ posted = <<>>
  /\ raised = <<>>
  /\ diagnostics = {}
  /\ fetched = NotFetched
BotIdle ==
  /\ NotHandling
  /\ processedMessageIds = {}
  /\ inputs = <<>>
  /\ contextEnabled = FALSE
  /\ contextFile = NoContext
  /\ running = <<>>

NotIndexing == [phase |-> "none", total |-> 0, lines |-> <<>>]
Summary(total, lines) == [phase |-> "done", total |-> total, lines |-> lines]

quietVars == <<writers, written, parseVars, encodeVars, replayVars, zoneVars,
               literalVars, scanVars, botVars>>

\* Number.MAX_SAFE_INTEGER, for a store of at most Cardinality(Ids) messages
Unlimited == Cardinality(Ids) + 1

RECURSIVE AppendAll(_, _)
\* for (const msg of toIndex) { await this.appendMessage(msg); total++; }
AppendAll(files, log) ==
  IF log = <<>> THEN files
  ELSE AppendAll(appendMessage(files, ThisChannel, Head(log)), Tail(log))

Logged(log) == [i \in 1..Len(log) |-> <<ThisChannel, log[i]>>]

\* indexHistoricMessages up to its first await: the summary of a disabled
\* index, or fetchMessagesOptimized up to its first await
CallIndexHistoric ==
  /\ pc = "idle"
  /\ max = Unlimited
  /\ indexing = NotIndexing
  /\ IF ~indexEnabled
     THEN /\ indexing' = Summary(0, <<>>)
          /\ UNCHANGED fetchVars
     ELSE /\ indexing' = NotIndexing
          /\ entry' = "indexHistoricMessages"
          /\ apiCallCount' = 0
          /\ searchAttempts' = 0
          /\ IF SnowflakeThrows(MidDate(startUTC, endUTC))
             THEN CatchAndFallBack("encoding")
             ELSE /\ via' = "search"
                  /\ anchorMessage' = NoId
                  /\ Locals(Fresh, 0, NoId, FALSE, NoId, FALSE)
                  /\ Suspend("around")
                  /\ UNCHANGED <<optError, fallbacks>>
          /\ UNCHANGED <<store, startUTC, endUTC, max, remoteCalls,
                         fallbackErrored>>
  /\ UNCHANGED <<indexEnabled, indexFiles, appended, queried, quietVars>>

\* fetchMessagesOptimized resolved: its rawLog is appended, and after a
\* fallback indexHistoricMessages calls fetchMessages up to its first await
IndexFetched ==
  /\ pc = "done"
  /\ entry = "indexHistoricMessages"
  /\ LET toIndex == result.rawLog
     IN /\ indexFiles' = AppendAll(indexFiles, toIndex)
        /\ appended' = appended \o Logged(toIndex)
        /\ IF result.usedFallback
           THEN /\ indexing' = [phase |-> "fallback", total |-> Len(toIndex),
                                lines |-> toIndex]
                /\ entry' = "fetchMessages"
                /\ via' = "direct"
                /\ EnterLinear
                /\ UNCHANGED <<apiCallCount, searchAttempts, remoteCalls,
                               optError, fallbacks, fallbackErrored>>
           ELSE /\ indexing' = Summary(Len(toIndex), toIndex)
                /\ Forget
  /\ UNCHANGED <<store, startUTC, endUTC, max, indexEnabled, queried, quietVars>>

\* the fetchMessages of indexHistoricMessages resolved: its rawLog is
\* appended and the summary returned
IndexFallbackFetched ==
  /\ pc = "done"
  /\ indexing.phase = "fallback"
  /\ indexFiles' = AppendAll(indexFiles, result.rawLog)
  /\ appended' = appended \o Logged(result.rawLog)
  /\ indexing' = Summary(indexing.total + Len(result.rawLog),
                         indexing.lines \o result.rawLog)
  /\ Forget
  /\ UNCHANGED <<store, startUTC, endUTC, max, indexEnabled, queried, quietVars>>

\* catch (error) of indexHistoricMessages: either retrieval rejected, the
\* summary counts what was appended before
IndexFetchFailed ==
  /\ pc = "failed"
  /\ entry = "indexHistoricMessages" \/ indexing.phase = "fallback"
  /\ indexing' = Summary(indexing.total, indexing.lines)
  /\ Forget
  /\ UNCHANGED <<store, startUTC, endUTC, max, indexEnabled, indexFiles,
                 appended, queried, quietVars>>

EmptyIndex ==
  /\ indexFiles = [f \in FileKeys |-> <<>>]
  /\ appended = <<>>
  /\ queried = NoQuery
  /\ writers = {}
  /\ written = <<>>
  /\ content = NoToken
  /\ now = 0
  /\ window = Pending
  /\ date = 0
  /\ snowflake = NotEncoded
  /\ overlap = 0
  /\ previous = <<>>
  /\ NoConversion
  /\ NoLiteral
  /\ scanned = NoScan
  /\ indexing = NotIndexing
  /\ BotIdle

Windows ==
  /\ startUTC \in Timestamps
  /\ endUTC \in {e \in Timestamps : startUTC <= e}

\* ------------------------------------------------------ index actions
\* the messages appendMessage is called with: any message of this channel,
\* and one message of another channel
Arrivals == {<<ThisChannel, m>> : m \in Ids} \cup {<<"ai", SetMax(Ids)>>}

\* a caller invokes appendMessage(message)
AppendMessage ==
  /\ pc = "idle"
  /\ Len(appended) < MaxRecs
  /\ \E a \in Arrivals :
       /\ indexFiles' = appendMessage(indexFiles, a[1], a[2])
       /\ appended' = Append(appended, a)
  /\ queried' = NoQuery
  /\ UNCHANGED <<fetchVars, indexEnabled, sideVars>>

\* a caller invokes getMessagesByDateRange(channelId, window)
QueryIndex ==
  /\ pc = "idle"
  /\ \E ch \in Channels :
       queried' = [channel |-> ch,
                   sorted |-> getMessagesByDateRange(ch, startUTC, endUTC)]
  /\ UNCHANGED <<fetchVars, indexEnabled, indexFiles, appended, sideVars>>

\* a caller invokes getMessagesByDateRange while month files it visits are
\* damaged
QueryDamaged ==
  /\ pc = "idle"
  /\ scanned = NoScan
  /\ \E ch \in Channels :
       \E dmg \in [Visited(ch, FullYear(startUTC), Month(startUTC), endUTC)
                     -> Damages] :
         /\ \A k \in DOMAIN dmg : Applies(dmg[k], indexFiles[k])
         /\ scanned' = ScanIndex(ch, [k \in FileKeys |->
                                        IF k \in DOMAIN dmg THEN dmg[k] ELSE Intact])
  /\ UNCHANGED <<fetchVars, indexEnabled, indexFiles, appended, queried,
                 writers, written, parseVars, encodeVars, replayVars,
                 zoneVars, literalVars, historicVars, botVars>>

\* messageCreate of bot.js: a message is posted to the channel; the
\* listener returns at once for a bot author and persists any other message
\* with appendMessage, taken here as one step
MessageCreate ==
  /\ pc = "idle"
  /\ Cardinality(store) < MaxRecs
  /\ \E m \in Ids, bot \in BOOLEAN :
       /\ \A x \in store : x < m
       /\ store' = store \cup {m}
       /\ IF bot
          THEN UNCHANGED <<indexFiles, appended>>
          ELSE /\ indexFiles' = appendMessage(indexFiles, ThisChannel, m)
               /\ appended' = Append(appended, <<ThisChannel, m>>)
  /\ UNCHANGED <<startUTC, endUTC, max, pc, entry, via, anchorMessage,
                 allMessagesMap, allRaw, hitLimit, stopTime, apiCalls, beforeId,
                 reachedStartBoundary, afterId, reachedEndBoundary,
                 apiCallCount, searchAttempts, result, thrown, remoteCalls,
                 optError, fallbacks, fallbackErrored, indexEnabled, queried,
                 sideVars>>

\* --------------------------------------- appendMessage, await by await
\* one write to a month file: a whole line, or the head or the tail of a
\* line that fs.appendFile needed two writes for
Fragment(m, part) ==
  [file |-> FileOf(ThisChannel, m), id |-> m, part |-> part]

\* messageCreate of bot.js up to the first await of appendMessage, which
\* the listener does not await: the call stays in flight while later
\* events are handled
LiveMessage ==
  /\ pc = "idle"
  /\ Cardinality(store) < MaxRecs
  /\ \E m \in Ids, bot \in BOOLEAN :
       /\ \A x \in store : x < m
       /\ store' = store \cup {m}
       /\ IF bot
          THEN UNCHANGED <<appended, writers>>
          ELSE /\ appended' = Append(appended, <<ThisChannel, m>>)
               /\ writers' = IF indexEnabled
                             THEN writers \cup {[id |-> m, at |-> "mkdir"]}
                             ELSE writers
  /\ UNCHANGED <<startUTC, endUTC, max, pc, entry, via, anchorMessage,
                 allMessagesMap, allRaw, hitLimit, stopTime, apiCalls, beforeId,
                 reachedStartBoundary, afterId, reachedEndBoundary,
                 apiCallCount, searchAttempts, result, thrown, remoteCalls,
                 optError, fallbacks, fallbackErrored, indexEnabled,
                 indexFiles, queried, written, parseVars, encodeVars, replayVars, zoneVars, literalVars, scanVars, historicVars, botVars>>

\* await fs.mkdir(dir, { recursive: true }) resolves
MkdirDone ==
  /\ \E w \in writers :
       /\ w.at = "mkdir"
       /\ writers' = (writers \ {w}) \cup {[w EXCEPT !.at = "appendFile"]}
  /\ UNCHANGED <<fetchVars, indexEnabled, indexFiles, appended, queried, written,
                 parseVars, encodeVars, replayVars, zoneVars, literalVars, scanVars, historicVars, botVars>>

\* fs.appendFile writes the whole line with one write and resolves
WriteLine ==
  /\ \E w \in writers :
       /\ w.at = "appendFile"
       /\ written' = Append(written, Fragment(w.id, "whole"))
       /\ writers' = writers \ {w}
  /\ UNCHANGED <<fetchVars, indexEnabled, indexFiles, appended, queried,
                 parseVars, encodeVars, replayVars, zoneVars, literalVars, scanVars, historicVars, botVars>>

\* the first write of fs.appendFile is short: the rest of the line is left
\* for a second write
WriteHead ==
  /\ \E w \in writers :
       /\ w.at = "appendFile"
       /\ written' = Append(written, Fragment(w.id, "head"))
       /\ writers' = (writers \ {w}) \cup {[w EXCEPT !.at = "rest"]}
  /\ UNCHANGED <<fetchVars, indexEnabled, indexFiles, appended, queried,
                 parseVars, encodeVars, replayVars, zoneVars, literalVars, scanVars, historicVars, botVars>>

\* the second write of fs.appendFile completes the line
WriteRest ==
  /\ \E w \in writers :
       /\ w.at = "rest"
       /\ written' = Append(written, Fragment(w.id, "tail"))
       /\ writers' = writers \ {w}
  /\ UNCHANGED <<fetchVars, indexEnabled, indexFiles, appended, queried,
                 parseVars, encodeVars, replayVars, zoneVars, literalVars, scanVars, historicVars, botVars>>

\* the content of one month file
RECURSIVE FileContent(_, _)
FileContent(log, f) ==
  IF log = <<>> THEN <<>>
  ELSE IF Head(log).file = f
  THEN <<Head(log)>> \o FileContent(Tail(log), f)
  ELSE FileContent(Tail(log), f)

\* ------------------------------------------------------ specifications
\* retrieval calls against a channel whose history does not change
InitFetch ==
  /\ store \in {S \in SUBSET Ids : Cardinality(S) <= MaxRecs}
  /\ Windows
  /\ max \in 1..MaxMax
  /\ Idle
  /\ indexEnabled = FALSE
  /\ EmptyIndex

NextFetch ==
  \/ CallExpand
  \/ CallLinear
  \/ CallContext
  \/ AroundStep
  \/ RetryStep
  \/ BackwardStep
  \/ ForwardStep
  \/ LinearStep
  \/ OptimizedCallFails
  \/ LinearCallFails
  \/ Return

SpecFetch == InitFetch /\ [][NextFetch]_vars

\* the index alone: appends in any order, queries at any time
InitIndex ==
  /\ store = {}
  /\ Windows
  /\ max = 1
  /\ Idle
  /\ indexEnabled \in BOOLEAN
  /\ EmptyIndex

NextIndex ==
  \/ AppendMessage
  \/ QueryIndex

SpecIndex == InitIndex /\ [][NextIndex]_vars

\* the bot: live messages are persisted as they arrive, mentions with a
\* date range run fetchMessagesForContext
Init ==
  /\ store \in {S \in SUBSET Ids : Cardinality(S) <= MaxRecs}
  /\ Windows
  /\ max \in 1..MaxMax
  /\ Idle
  /\ indexEnabled \in BOOLEAN
  /\ EmptyIndex

Next ==
  \/ MessageCreate
  \/ CallContext
  \/ AroundStep
  \/ RetryStep
  \/ BackwardStep
  \/ ForwardStep
  \/ LinearStep
  \/ OptimizedCallFails
  \/ LinearCallFails
  \/ Return

Spec == Init /\ [][Next]_vars

\* expandFromAnchor alone; a fetch that was issued settles, so the loop
\* that awaits it is resumed
NextExpand ==
  \/ CallExpand
  \/ BackwardStep
  \/ ForwardStep
  \/ OptimizedCallFails
  \/ Return

SpecExpand ==
  /\ InitFetch
  /\ [][NextExpand]_vars
  /\ WF_vars(BackwardStep)
  /\ WF_vars(ForwardStep)

\* fetchMessages alone
NextLinear ==
  \/ CallLinear
  \/ LinearStep
  \/ LinearCallFails
  \/ Return

SpecLinear ==
  /\ InitFetch
  /\ [][NextLinear]_vars
  /\ WF_vars(LinearStep)

\* live messages arriving back to back, their appendMessage calls
\* overlapping
InitAppend ==
  /\ store = {}
  /\ startUTC = 0
  /\ endUTC = MaxTs
  /\ max = 1
  /\ Idle
  /\ indexEnabled \in BOOLEAN
  /\ EmptyIndex

NextAppend ==
  \/ LiveMessage
  \/ MkdirDone
  \/ WriteLine
  \/ WriteHead
  \/ WriteRest

SpecAppend == InitAppend /\ [][NextAppend]_vars

\* every token at every instant
InitParse ==
  /\ store = {}
  /\ startUTC = 0
  /\ endUTC = MaxTs
  /\ max = 1
  /\ Idle
  /\ indexEnabled = FALSE
  /\ indexFiles = [f \in FileKeys |-> <<>>]
  /\ appended = <<>>
  /\ queried = NoQuery
  /\ writers = {}
  /\ written = <<>>
  /\ content \in Tokens
  /\ now \in Instants
  /\ window = Pending
  /\ date = 0
  /\ snowflake = NotEncoded
  /\ overlap = 0
  /\ previous = <<>>
  /\ NoConversion
  /\ NoLiteral
  /\ scanned = NoScan
  /\ indexing = NotIndexing
  /\ BotIdle

NextParse == ParseDateRange

SpecParse == InitParse /\ [][NextParse]_vars

\* every date from just before the epoch to MaxOffset ms after it
InitEncode ==
  /\ store = {}
  /\ startUTC = 0
  /\ endUTC = MaxTs
  /\ max = 1
  /\ Idle
  /\ indexEnabled = FALSE
  /\ indexFiles = [f \in FileKeys |-> <<>>]
  /\ appended = <<>>
  /\ queried = NoQuery
  /\ writers = {}
  /\ written = <<>>
  /\ content = NoToken
  /\ now = 0
  /\ window = Pending
  /\ date \in 0..(DISCORD_EPOCH + MaxOffset)
  /\ snowflake = NotEncoded
  /\ overlap = 0
  /\ previous = <<>>
  /\ NoConversion
  /\ NoLiteral
  /\ scanned = NoScan
  /\ indexing = NotIndexing
  /\ BotIdle

NextEncode == DateToSnowflake

SpecEncode == InitEncode /\ [][NextEncode]_vars

\* date-range retrievals one after the other, the store unchanged and
\* answering each request the same way every time
InitTwice ==
  /\ store \in {S \in SUBSET Ids : Cardinality(S) <= MaxRecs}
  /\ Windows
  /\ max \in 1..MaxMax
  /\ Idle
  /\ indexEnabled = FALSE
  /\ indexFiles = [f \in FileKeys |-> <<>>]
  /\ appended = <<>>
  /\ queried = NoQuery
  /\ writers = {}
  /\ written = <<>>
  /\ content = NoToken
  /\ now = 0
  /\ window = Pending
  /\ date = 0
  /\ snowflake = NotEncoded
  /\ overlap \in 0..(BatchLimit - 1)
  /\ previous = <<>>
  /\ NoConversion
  /\ NoLiteral
  /\ scanned = NoScan
  /\ indexing = NotIndexing
  /\ BotIdle

NextTwice ==
  \/ CallContext
  \/ AroundStep
  \/ RetryStep
  \/ BackwardStepSame
  \/ ForwardStepSame
  \/ LinearStepSame
  \/ ReturnRemembered

SpecTwice == InitTwice /\ [][NextTwice]_vars

\* expandFromAnchor from any record of any store, every batch holding the
\* BatchLimit records next to the cursor and nothing else
InitWalk ==
  /\ store \in SUBSET Ids
  /\ Windows
  /\ max \in {MaxMax, Cardinality(Ids) + 1}
  /\ Idle
  /\ indexEnabled = FALSE
  /\ EmptyIndex

NextWalk ==
  \/ CallExpand
  \/ BackwardStepSame
  \/ ForwardStepSame
  \/ Return

SpecWalk == InitWalk /\ [][NextWalk]_vars

\* --------------------------------------------------------- properties
Returned == pc = "done"
ExpandReturned ==
  Returned /\ (entry = "expandFromAnchor" \/ via \in {"anchor", "nearest"})
LinearReturned ==
  Returned /\ (entry = "fetchMessages" \/ via \in {"noanchor", "error"})
IdsOf(seq) == {seq[i] : i \in 1..Len(seq)}
HasRepeat(seq) == \E i, j \in 1..Len(seq) : i < j /\ seq[i] = seq[j]

\* C1: the sorted list expandFromAnchor returns has no two records with the
\* same id, holds only records inside [startUTC, endUTC], and is ordered by
\* non-decreasing createdTimestamp, for every window, max, anchor and store,
\* also when successive batches repeat records.
C1_ExpandUniqueInWindowSorted ==
  ExpandReturned =>
    /\ ~HasRepeat(result.sorted)
    /\ \A i \in 1..Len(result.sorted) : InRange(Ts(result.sorted[i]))
    /\ \A i \in 1..(Len(result.sorted) - 1) :
         Ts(result.sorted[i]) <= Ts(result.sorted[i + 1])

\* an expansion that was handed an in-window record twice and returned
\* several records
C1_Witness ==
  /\ ExpandReturned
  /\ Len(result.sorted) >= 2
  /\ \E i, j \in 1..Len(allRaw) :
       i < j /\ allRaw[i] = allRaw[j] /\ InRange(Ts(allRaw[i]))

\* C2: with max larger than the number of in-window records, fetchMessages
\* and expandFromAnchor (from an in-window or a navigational anchor) return
\* the same set of ids for the same store and window: each returns exactly
\* the in-window records of the store.
C2_LinearAndExpandSameIds ==
  (Returned /\ max > Cardinality(InWindow)) =>
    IdsOf(result.sorted) = InWindow

\* an expansion from an anchor outside the window that had several
\* in-window records to find
C2_Witness ==
  /\ ExpandReturned
  /\ ~InRange(Ts(anchorMessage))
  /\ Cardinality(InWindow) >= 2
  /\ max > Cardinality(InWindow)

\* C3: when the index is enabled and holds records of the window, a
\* date-range retrieval returns those records and issues no remote fetch.
C3_IndexHitIssuesNoRemoteCall ==
  (/\ indexEnabled
   /\ entry = "fetchMessagesForContext"
   /\ getMessagesByDateRange(ThisChannel, startUTC, endUTC) # <<>>) =>
    /\ remoteCalls = 0
    /\ Returned => result.sorted =
                     [i \in 1..Len(getMessagesByDateRange(ThisChannel, startUTC, endUTC)) |->
                        getMessagesByDateRange(ThisChannel, startUTC, endUTC)[i].id]

\* a date-range retrieval that fetched from the channel although the index
\* held a message of the window
C3_Witness ==
  /\ indexEnabled
  /\ entry = "fetchMessagesForContext"
  /\ getMessagesByDateRange(ThisChannel, startUTC, endUTC) # <<>>
  /\ Returned
  /\ remoteCalls >= 2

\* C4: an error of a remote call on the optimized path is not surfaced:
\* the call returns what fetchMessages finds for the same window and max,
\* flagged usedFallback and hadError; it fails only if the fallback fails.
C4_OptimizedErrorFallsBack ==
  (optError = "remote") =>
    /\ pc \in {"linear", "done", "failed"}
    /\ fallbacks = 1
    /\ pc = "failed" => fallbackErrored
    /\ Returned => /\ result.usedFallback
                   /\ result.hadError
                   /\ IdsOf(result.sorted) = Newest(InWindow, max)

\* a call whose expansion hit an error after accepting records and that
\* returned the fallback's records
C4_Witness ==
  /\ optError = "remote"
  /\ Returned
  /\ Len(result.sorted) >= 2

\* C5: one call switches to the linear fallback at most once, and an error
\* inside the fallback is not retried: the call ends there and the caller
\* of fetchMessagesForContext gets the retrieval-failure error.
C5_SingleFallbackThenFailure ==
  /\ fallbacks <= 1
  /\ fallbackErrored =>
       /\ pc = "failed"
       /\ result = NoResult
       /\ thrown = FetchFailure

\* the no-anchor fallback hit an error and the linear walk was started a
\* second time
C5_Witness ==
  /\ fallbackErrored
  /\ fallbacks = 2
  /\ via = "error"
  /\ pc = "linear"

\* C6: in every result of expandFromAnchor or fetchMessages, hitLimit
\* implies that sorted has exactly max records and that stopTime is the
\* createdTimestamp of the last record accepted.
C6_HitLimitMeansMaxAndBoundary ==
  (Returned /\ result.hitLimit) =>
    /\ Len(result.sorted) = max
    /\ allMessagesMap # <<>>
    /\ result.stopTime = Ts(allMessagesMap[Len(allMessagesMap)])

\* an expansion that met the start boundary going backward and the limit
\* going forward
C6_Witness ==
  /\ ExpandReturned
  /\ result.hitLimit
  /\ reachedStartBoundary
  /\ max >= 2

\* C7: when the store holds more than max in-window records, the retrieval
\* (expandFromAnchor from an in-window anchor, fetchMessages) returns
\* exactly max records with hitLimit = true.
C7_MoreThanMaxIsTruncated ==
  (/\ Returned
   /\ Cardinality(InWindow) > max
   /\ ExpandReturned => InRange(Ts(anchorMessage))) =>
    /\ Len(result.sorted) = max
    /\ result.hitLimit

\* an expansion with max = 1 from an in-window anchor that returned the
\* anchor alone, untruncated, although the window holds more
C7_Witness ==
  /\ ExpandReturned
  /\ InRange(Ts(anchorMessage))
  /\ Cardinality(InWindow) > max
  /\ Len(result.sorted) = max
  /\ ~result.hitLimit

\* C8: with the index enabled, getMessagesByDateRange returns exactly the
\* records appended for the channel whose createdTimestamp lies in the
\* window, each as often as it was appended, in ascending createdTimestamp
\* order, whatever the order of the appends.
C8_QueryReturnsAppendedInWindow ==
  (indexEnabled /\ queried # NoQuery) =>
    /\ \A m \in Ids :
         Cardinality({i \in 1..Len(queried.sorted) : queried.sorted[i].id = m})
         = IF InRange(Ts(m))
           THEN Cardinality({i \in 1..Len(appended) :
                               appended[i] = <<queried.channel, m>>})
           ELSE 0
    /\ \A i \in 1..Len(queried.sorted) :
         queried.sorted[i].createdTimestamp = Ts(queried.sorted[i].id)
    /\ \A i \in 1..(Len(queried.sorted) - 1) :
         queried.sorted[i].createdTimestamp
           <= queried.sorted[i + 1].createdTimestamp

\* a query that returned records of two years that were appended newest
\* first, while a record outside the window was left out
C8_Witness ==
  /\ indexEnabled
  /\ queried # NoQuery
  /\ Len(queried.sorted) >= 2
  /\ Len(queried.sorted) < Len(appended)
  /\ FullYear(queried.sorted[1].createdTimestamp)
       < FullYear(queried.sorted[Len(queried.sorted)].createdTimestamp)
  /\ Ts(appended[1][2]) > Ts(appended[Len(appended)][2])

\* C9: expandFromAnchor terminates against a store with finite history:
\* the backward and the forward loop both stop, because a fetch that leaves
\* a loop running has moved its cursor away from the anchor.
C9_ExpandTerminates ==
  /\ (pc \in {"backward", "forward"}) ~> (pc \in {"done", "failed"})
  /\ [][/\ (pc = "backward" /\ pc' = "backward") => beforeId' < beforeId
        /\ (pc = "forward" /\ pc' = "forward") => afterId' > afterId]_vars

\* an expansion that needed several fetches in each direction
C9_Witness ==
  /\ ExpandReturned
  /\ apiCalls >= 4
  /\ afterId # anchorMessage
  /\ beforeId # anchorMessage

\* C10: fetchMessages terminates against a store with finite history, and
\* a fetch that leaves it in the loop has moved the before cursor.
C10_LinearTerminates ==
  /\ (pc = "linear") ~> (pc \in {"done", "failed"})
  /\ [][(pc = "linear" /\ pc' = "linear") =>
          (beforeId' # beforeId /\ (beforeId # NoId => beforeId' < beforeId))]_vars

\* a linear walk that needed several fetches
C10_Witness ==
  /\ LinearReturned
  /\ remoteCalls >= 3
  /\ result.sorted # <<>>

\* C11: with max larger than the number of in-window records, fetchMessages
\* returns every record of the store inside [startUTC, endUTC], however many
\* records newer than endUTC it has to walk past first.
C11_LinearFindsEveryInWindowRecord ==
  (LinearReturned /\ max > Cardinality(InWindow)) =>
    /\ \A m \in InWindow : Has(result.sorted, m)
    /\ Len(result.sorted) = Cardinality(InWindow)
    /\ ~result.hitLimit

\* a walk that passed a full batch of newer records before it met an
\* in-window one
C11_Witness ==
  /\ LinearReturned
  /\ entry = "fetchMessages"
  /\ max > Cardinality(InWindow)
  /\ Cardinality({m \in store : Ts(m) > endUTC}) >= BatchLimit
  /\ Cardinality(InWindow) >= 1
  /\ remoteCalls >= 2

WholeLines(s) ==
  \A i \in 1..Len(s) :
    \/ s[i].part = "whole"
    \/ /\ s[i].part = "head"
       /\ i < Len(s)
       /\ s[i + 1] = [s[i] EXCEPT !.part = "tail"]
    \/ /\ s[i].part = "tail"
       /\ i > 1
       /\ s[i - 1] = [s[i] EXCEPT !.part = "head"]

Writing(f) == {w \in writers : w.at \in {"appendFile", "rest"}
                                /\ FileOf(ThisChannel, w.id) = f}

\* C12: appendMessage calls that target the same month file are serialized:
\* at most one of them is writing the file at a time, and once all calls
\* have ended the file holds complete lines only.
C12_AppendsAreSerialized ==
  \A f \in FileKeys :
    /\ Cardinality(Writing(f)) <= 1
    /\ writers = {} =>
         WholeLines(FileContent(written, f))

\* two calls have ended and the line of one lies inside the line of the other
C12_Witness ==
  /\ writers = {}
  /\ \E f \in FileKeys :
       LET s == FileContent(written, f)
       IN \E i \in 1..(Len(s) - 2) :
            /\ s[i].part = "head"
            /\ s[i + 1].part = "whole"
            /\ s[i + 2] = [s[i] EXCEPT !.part = "tail"]

\* C13: with the index enabled, every message the client delivers, whatever
\* its author, leads to exactly one appendMessage call for it.
C13_EveryLiveRecordAppendedOnce ==
  indexEnabled =>
    \A m \in store :
      Cardinality({i \in 1..Len(appended) : appended[i] = <<ThisChannel, m>>}) = 1

\* a message of a bot author was delivered and no appendMessage call was
\* made for it
C13_Witness ==
  /\ indexEnabled
  /\ \E m \in store : \A i \in 1..Len(appended) : appended[i][2] # m
  /\ Len(appended) >= 1

\* the civil day a side of the token names at the instant of evaluation
CivilDay(side) ==
  IF side.kind = "date" THEN side.day
  ELSE CHOOSE d \in 0..(MaxDay + 1) :
         /\ d * HoursPerDay + (IF DstFirst < d /\ d <= DstLast
                               THEN OffsetEDT ELSE OffsetEST) <= now
         /\ now < (d + 1) * HoursPerDay
                    + (IF DstFirst < d + 1 /\ d + 1 <= DstLast
                       THEN OffsetEDT ELSE OffsetEST)

\* the instant of local midnight of civil day d
Midnight(d) ==
  d * HoursPerDay + (IF DstFirst < d /\ d <= DstLast THEN OffsetEDT ELSE OffsetEST)

Parsed == window.state # "pending"

\* C14: parseDateRange returns null or a window with startUTC <= endUTC, and
\* a token whose left date is a later civil day than its right date yields
\* null.
C14_WindowIsOrdered ==
  Parsed =>
    /\ window.state = "window" => window.startUTC <= window.endUTC
    /\ (content.right.kind # "absent"
          /\ CivilDay(content.left) > CivilDay(content.right))
         => window.state = "null"

C14_Witness ==
  /\ Parsed
  /\ content.left.kind = "date"
  /\ content.right.kind = "today"
  /\ CivilDay(content.left) > CivilDay(content.right)
  /\ window.state = "null"

\* C15: when the right edge of the token is Today, endUTC is the instant of
\* evaluation, and for the single token Today startUTC is local midnight of
\* the current civil day.
C15_TodayEndsNow ==
  (Parsed /\ content.left.kind # "absent"
     /\ (content.right.kind = "today"
          \/ (content.left.kind = "today" /\ content.right.kind = "absent")))
    => (window.state = "window" =>
          /\ window.endUTC = now
          /\ content.right.kind = "absent"
               => window.startUTC = Midnight(CivilDay(Today)))

\* the single token Today was parsed and its window ends after the instant
\* of evaluation
C15_Witness ==
  /\ Parsed
  /\ content = [left |-> Today, right |-> Absent]
  /\ window.state = "window"
  /\ window.startUTC = Midnight(CivilDay(Today))
  /\ window.endUTC > now

C17_SnowflakeRoundTrip ==
  snowflake.state = "id" =>
    /\ snowflake.id \div Increments + DISCORD_EPOCH = date
    /\ snowflake.id % Increments = 0

\* an id whose printed digits were rounded below the product, so that it
\* decodes to the millisecond before the date
C17_Witness ==
  /\ snowflake.state = "id"
  /\ date >= DISCORD_EPOCH
  /\ snowflake.id \div Increments + DISCORD_EPOCH = date - 1
  /\ snowflake.id % Increments # 0

\* C18: when the midpoint of the window lies before the epoch,
\* dateToSnowflake throws before any fetch({ around }) is issued, and
\* fetchMessagesOptimized returns what the linear fallback finds for the
\* same window, flagged usedFallback and hadError.
C18_EncodingErrorFallsBack ==
  (Optimized /\ pc # "idle" /\ MidDate(startUTC, endUTC) < DISCORD_EPOCH) =>
    /\ optError = "encoding"
    /\ pc \in {"linear", "done", "failed"}
    /\ apiCallCount = 0
    /\ searchAttempts = 0
    /\ pc = "failed" => fallbackErrored
    /\ Returned => /\ result.usedFallback
                   /\ result.hadError
                   /\ IdsOf(result.sorted) = Newest(InWindow, max)

\* a window that starts before the epoch, answered by the fallback with a
\* record
C18_Witness ==
  /\ Optimized
  /\ MidDate(startUTC, endUTC) < DISCORD_EPOCH
  /\ optError = "encoding"
  /\ Returned
  /\ result.usedFallback /\ result.hadError
  /\ Len(result.sorted) >= 1
  /\ remoteCalls >= 1

\* C20: on every path of fetchMessagesOptimized the returned result carries
\* apiCalls, equal to the number of remote fetch calls issued during the
\* retrieval, and fetchTime.
C20_ResultCountsEveryCall ==
  (Optimized /\ Returned) =>
    /\ result.hasApiCalls
    /\ result.apiCalls = remoteCalls
    /\ result.fetchTime

\* a retrieval that expanded from the nearest record of a retry batch and
\* returned a count without the around calls, and no fetchTime
C20_Witness ==
  /\ Optimized
  /\ Returned
  /\ via = "nearest"
  /\ result.hasApiCalls
  /\ result.apiCalls + 2 <= remoteCalls
  /\ ~result.fetchTime

C21_AnchorInResultIffInWindow ==
  ExpandReturned =>
    /\ Has(result.sorted, anchorMessage) <=> InRange(Ts(anchorMessage))
    /\ (via = "nearest" /\ ~InRange(Ts(anchorMessage)))
         => ~Has(result.sorted, anchorMessage)

\* an expansion from an anchor outside the window that returned records of
\* the window without the anchor
C21_Witness ==
  /\ ExpandReturned
  /\ anchorMessage # NoId
  /\ ~InRange(Ts(anchorMessage))
  /\ Len(result.sorted) >= 1
  /\ ~Has(result.sorted, anchorMessage)

\* the records a step added to the raw log: the batch it was answered with
Pushed == {allRaw'[i] : i \in (Len(allRaw) + 1)..Len(allRaw')}

\* C22: the first fetch({ before }) of expandFromAnchor is sent with the
\* anchor's id, and every later one with the id of the oldest record of the
\* batch before it, whether or not its records were accepted; the cursors
\* sent are strictly decreasing.
C22_BackwardCursorIsOldestOfBatch ==
  /\ [](pc = "backward" /\ apiCalls = 0 => beforeId = anchorMessage)
  /\ [][(pc = "backward" /\ pc' = "backward") =>
          /\ Pushed # {}
          /\ beforeId' \in Pushed
          /\ \A m \in Pushed : beforeId' <= m
          /\ beforeId' < beforeId]_vars

\* the backward walk is about to send its second request after a batch
\* whose records were all newer than endUTC
C22_Witness ==
  /\ pc = "backward"
  /\ apiCalls = 1
  /\ allMessagesMap = <<>>
  /\ Len(allRaw) >= 2
  /\ \A i \in 1..Len(allRaw) : Ts(allRaw[i]) > endUTC
  /\ beforeId = allRaw[Len(allRaw)]
  /\ beforeId < anchorMessage

\* C23: once the limit is reached in the backward walk of expandFromAnchor
\* the invocation issues no further remote call: the walk ends, the forward
\* walk is not entered, and the call returns.
C23_LimitInBackwardWalkEndsCalls ==
  /\ [][(pc = "backward" /\ hitLimit') => pc' = "done"]_vars
  /\ [][(hitLimit /\ pc' # "idle") => remoteCalls' = remoteCalls]_vars
  /\ [](pc \in {"backward", "forward"} => ~hitLimit /\ Len(allMessagesMap) < max)

\* an expansion that hit the limit walking backward and returned without a
\* forward request, leaving a newer in-window record unfetched
C23_Witness ==
  /\ ExpandReturned
  /\ result.hitLimit
  /\ apiCalls >= 1
  /\ afterId = anchorMessage
  /\ \A i \in 1..Len(allRaw) : allRaw[i] <= anchorMessage
  /\ \E m \in InWindow : m > anchorMessage

\* C24: the forward walk of expandFromAnchor stops with the batch in which a
\* record newer than endUTC is first seen: it never waits for another
\* fetch({ after }) once such a record was fetched.
C24_ForwardStopsAtFirstRecordBeyondEnd ==
  pc = "forward" => ~reachedEndBoundary

\* the forward walk has logged a record newer than endUTC next to a record
\* of the window and is sending a further request
C24_Witness ==
  /\ pc = "forward"
  /\ reachedEndBoundary
  /\ ~hitLimit
  /\ \E i \in 1..Len(allRaw) : Ts(allRaw[i]) > endUTC /\ allRaw[i] > anchorMessage
  /\ \E i \in 1..Len(allRaw) : InRange(Ts(allRaw[i])) /\ allRaw[i] > anchorMessage

CeilDiv(a, b) == (a + b - 1) \div b

\* C25: from an anchor inside the window, against a store whose batches are
\* the BatchLimit records next to the cursor, expandFromAnchor makes at most
\* ceil(w / BatchLimit) + 3 remote calls, w being the number of records in
\* the window, however many records the store holds outside the window.
C25_CallsBoundedByWindow ==
  (entry = "expandFromAnchor" /\ anchorMessage # NoId
     /\ InRange(Ts(anchorMessage)) /\ overlap = 0) =>
    apiCalls <= CeilDiv(Cardinality(InWindow), BatchLimit) + 3

\* a returned expansion of a one-record window in a store with five records
\* outside it, on both sides
C25_Witness ==
  /\ ExpandReturned
  /\ entry = "expandFromAnchor"
  /\ InRange(Ts(anchorMessage))
  /\ overlap = 0
  /\ Cardinality(store \ InWindow) >= 2 * BatchLimit
  /\ \E m \in store : m < anchorMessage /\ ~InRange(Ts(m))
  /\ \E m \in store : m > anchorMessage /\ ~InRange(Ts(m))
  /\ apiCalls >= 2

\* the window of a retry and the batch a retry is answered with
expandedStart == startUTC - OneDay
expandedEnd == endUTC + OneDay
expandedBatch == FetchAround(dateToSnowflake(MidDate(expandedStart, expandedEnd)))

\* C26: after an initial batch without an in-window record,
\* fetchMessagesOptimized sends at most maxAttempts further
\* fetch({ around }) requests, each for the window widened by a day on both
\* sides; it expands from the record of the first non-empty retry batch
\* nearest to a window edge, and starts fetchMessages only after maxAttempts
\* empty retry batches.
C26_RetriesThenNearestOrFallback ==
  Optimized =>
    /\ searchAttempts <= maxAttempts
    /\ expandedStart < startUTC /\ endUTC < expandedEnd
    /\ pc = "retry" =>
         /\ searchAttempts < maxAttempts
         /\ remoteCalls = 1 + searchAttempts
         /\ findAnchorMessage(FetchAround(dateToSnowflake(
                                  MidDate(startUTC, endUTC)))) = NoId
    /\ via = "nearest" =>
         /\ remoteCalls >= 2
         /\ expandedBatch # <<>>
         /\ anchorMessage = NearestMessage(expandedBatch)
         /\ \A i \in 1..Len(expandedBatch) :
              Distance(anchorMessage) <= Distance(expandedBatch[i])
    /\ via = "noanchor" =>
         /\ searchAttempts = maxAttempts
         /\ remoteCalls >= 1 + maxAttempts
         /\ expandedBatch = <<>>

\* a returned expansion from a retry batch of two records, one on each side
\* of the window, the first of the nearest taken as anchor
C26_Witness ==
  /\ Optimized
  /\ via = "nearest"
  /\ Len(expandedBatch) = 2
  /\ \A i \in 1..2 : ~InRange(Ts(expandedBatch[i]))
  /\ anchorMessage = expandedBatch[1]
  /\ Returned

InitZone ==
  /\ store = {}
  /\ startUTC = 0
  /\ endUTC = 0
  /\ max = MaxMax
  /\ Idle
  /\ indexEnabled = FALSE
  /\ indexFiles = [f \in FileKeys |-> <<>>]
  /\ appended = <<>>
  /\ queried = NoQuery
  /\ writers = {}
  /\ written = <<>>
  /\ content = NoToken
  /\ now = 0
  /\ window = Pending
  /\ date = 0
  /\ snowflake = NotEncoded
  /\ overlap = 0
  /\ previous = <<>>
  /\ dayOfWeek \in Weekdays
  /\ nyDate \in CivilDates
  /\ utcDate = NotConverted
  /\ NoLiteral
  /\ scanned = NoScan
  /\ indexing = NotIndexing
  /\ BotIdle

NextZone == NyToUTC

SpecZone == InitZone /\ [][NextZone]_vars

\* The second Sunday of March and the first Sunday of November of a year
\* whose March 1 falls on weekday w, found on the calendar.
SundaysOfMarch(w) == {d \in 1..31 : (w + d - 1) % DaysPerWeek = 0}
SundaysOfNovember(w) == {d \in 1..30 : (getDay(November, w) + d - 1) % DaysPerWeek = 0}
Least(S) == CHOOSE d \in S : \A e \in S : d <= e
InDaylightTime(d, w) ==
  /\ getTime(d) >= getTime(CivilDate(March, Least(SundaysOfMarch(w) \ {Least(SundaysOfMarch(w))}), TransitionHour))
  /\ getTime(d) < getTime(CivilDate(November, Least(SundaysOfNovember(w)), TransitionHour))

\* C27: isEDT(d) is true exactly when d is at or after 02:00 local on the
\* second Sunday of March and before 02:00 local on the first Sunday of
\* November, whatever the weekday of March 1 and November 1; nyToUTC adds
\* four hours in that period and five hours otherwise.
C27_DaylightPeriodIsSundayToSunday ==
  utcDate.state = "done" =>
    /\ utcDate.edt <=> InDaylightTime(nyDate, dayOfWeek)
    /\ utcDate.time = getTime(nyDate)
         + (IF InDaylightTime(nyDate, dayOfWeek) THEN OffsetEDT ELSE OffsetEST)

\* March 1 is a Friday; 02:00 on Saturday March 9 is already taken as
\* daylight time, a day before the second Sunday.
C27_Witness ==
  /\ utcDate.state = "done"
  /\ dayOfWeek = 5
  /\ nyDate = CivilDate(March, 9, TransitionHour)
  /\ utcDate.edt
  /\ utcDate.time = getTime(nyDate) + OffsetEDT
  /\ ~InDaylightTime(nyDate, dayOfWeek)

InitLiteral ==
  /\ store = {}
  /\ startUTC = 0
  /\ endUTC = 0
  /\ max = MaxMax
  /\ Idle
  /\ indexEnabled = FALSE
  /\ indexFiles = [f \in FileKeys |-> <<>>]
  /\ appended = <<>>
  /\ queried = NoQuery
  /\ writers = {}
  /\ written = <<>>
  /\ content = NoToken
  /\ now = 0
  /\ window = Pending
  /\ date = 0
  /\ snowflake = NotEncoded
  /\ overlap = 0
  /\ previous = <<>>
  /\ NoConversion
  /\ dateStr \in Literals
  /\ returned = NotParsed
  /\ scanned = NoScan
  /\ indexing = NotIndexing
  /\ BotIdle

NextLiteral == ParseDate

SpecLiteral == InitLiteral /\ [][NextLiteral]_vars

\* C28: a literal N1/N2/YYYY that the direct parse rejects is read as
\* month N1, day N2 when N1 <= 12 and as day N1, month N2 when N1 > 12;
\* a rejected literal of another form yields null.
C28_RejectedLiteralReadByFirstNumber ==
  (returned.state = "done" /\ ~dateStr.readable) =>
    returned.date =
      IF dateStr.form # "N1/N2/YYYY" THEN NullDate
      ELSE IF dateStr.first <= MaxMonth
        THEN MakeDate(dateStr.first - 1, dateStr.second)
      ELSE MakeDate(dateStr.second - 1, dateStr.first)

\* 13/01/YYYY comes back as January 1 of the following year, not as
\* January 13.
C28_Witness ==
  /\ returned.state = "done"
  /\ dateStr = Slashed(13, 1)
  /\ returned.date = MakeDate(0, DaysPerYear + 1)
  /\ returned.date # MakeDate(0, 13)

\* the three retrieval paths side by side: live messages are persisted as
\* they arrive, and a window is retrieved by expandFromAnchor, by
\* fetchMessages or from the index
InitBounds ==
  /\ store \in {S \in SUBSET Ids : Cardinality(S) <= MaxRecs}
  /\ Windows
  /\ max \in 1..MaxMax
  /\ Idle
  /\ indexEnabled \in BOOLEAN
  /\ EmptyIndex

NextBounds ==
  \/ MessageCreate
  \/ QueryIndex
  \/ CallExpand
  \/ CallLinear
  \/ BackwardStep
  \/ ForwardStep
  \/ LinearStep
  \/ Return

SpecBounds == InitBounds /\ [][NextBounds]_vars

AtBound(ts) == ts = startUTC \/ ts = endUTC

\* the lines of the month files of one channel
LinesOf(ch) ==
  UNION {{indexFiles[k][i] : i \in 1..Len(indexFiles[k])} :
           k \in {f \in FileKeys : f[1] = ch}}

\* C29: both bounds of the window are inclusive on all three retrieval
\* paths: a record at startUTC or at endUTC that expandFromAnchor or
\* fetchMessages fetched is in the result unless the limit cut it off, a
\* line at startUTC or endUTC is in the answer of getMessagesByDateRange,
\* and the backward walk is stopped only by a record older than startUTC.
C29_BothBoundsInclusive ==
  /\ [](Returned /\ ~result.hitLimit =>
          \A m \in IdsOf(result.rawLog) :
            AtBound(Ts(m)) => Has(result.sorted, m))
  /\ [][(queried' # queried /\ queried' # NoQuery /\ indexEnabled) =>
          \A x \in LinesOf(queried'.channel) :
            AtBound(x.createdTimestamp) =>
              \E i \in 1..Len(queried'.sorted) : queried'.sorted[i] = x]_vars
  /\ [][(pc = "backward" /\ reachedStartBoundary') =>
          \E m \in Pushed : Ts(m) < startUTC]_vars

\* an expansion from an anchor at endUTC whose backward walk kept a record
\* at startUTC and went on to an older one, after an index query that
\* answered with the lines of both records
C29_Witness ==
  /\ ExpandReturned /\ entry = "expandFromAnchor" /\ ~result.hitLimit
  /\ startUTC < endUTC
  /\ Ts(anchorMessage) = endUTC /\ Has(result.sorted, anchorMessage)
  /\ \E i, j \in 1..Len(result.rawLog) :
       /\ i < j
       /\ Ts(result.rawLog[i]) = startUTC
       /\ Has(result.sorted, result.rawLog[i])
       /\ Ts(result.rawLog[j]) < startUTC
       /\ queried.channel = ThisChannel
       /\ Has(queried.sorted, Entry(result.rawLog[i]))
       /\ Has(queried.sorted, Entry(anchorMessage))

\* getMessagesByDateRange over month files that may be missing, torn or
\* unreadable
RECURSIVE Appended(_)
\* the month files after appendMessage ran for each arrival of log in turn
Appended(log) ==
  IF log = <<>> THEN [f \in FileKeys |-> <<>>]
  ELSE LET a == log[Len(log)]
       IN appendMessage(Appended(SubSeq(log, 1, Len(log) - 1)), a[1], a[2])

InitDisk ==
  /\ store = {}
  /\ Windows
  /\ max = 1
  /\ Idle
  /\ indexEnabled = TRUE
  /\ appended \in UNION {[1..n -> Arrivals] : n \in 0..MaxRecs}
  /\ indexFiles = Appended(appended)
  /\ queried = NoQuery
  /\ writers = {}
  /\ written = <<>>
  /\ content = NoToken
  /\ now = 0
  /\ window = Pending
  /\ date = 0
  /\ snowflake = NotEncoded
  /\ overlap = 0
  /\ previous = <<>>
  /\ NoConversion
  /\ NoLiteral
  /\ scanned = NoScan
  /\ indexing = NotIndexing
  /\ BotIdle

NextDisk == QueryDamaged

SpecDisk == InitDisk /\ [][NextDisk]_vars

\* the lines of a month file of the scan that are valid JSON and in the window
GoodLines(sc, k) ==
  {i \in 1..Len(indexFiles[k]) :
     i \notin sc.damage[k].invalid /\ InRange(indexFiles[k][i].createdTimestamp)}

VisitedBy(sc) ==
  Visited(sc.channel, FullYear(startUTC), Month(startUTC), endUTC)

Occurrences(seq, x) == Cardinality({i \in 1..Len(seq) : seq[i] = x})

\* C30: getMessagesByDateRange does not fail because of what the index
\* holds: a month file that cannot be opened contributes no records, a
\* line that is not valid JSON is skipped while the other lines of its
\* file are returned, and the months after a bad file are still scanned.
C30_BadFilesAndLinesAreSkipped ==
  scanned # NoScan =>
    /\ ~scanned.threw
    /\ \A k \in VisitedBy(scanned) :
         LET d == scanned.damage[k]
             lines == indexFiles[k]
         IN /\ ~d.opens =>
                 \A i \in 1..Len(lines) : ~Has(scanned.sorted, lines[i])
            /\ (d.opens /\ d.delivered >= Len(lines)) =>
                 \A x \in {lines[i] : i \in 1..Len(lines)} :
                   Occurrences(scanned.sorted, x)
                     = Cardinality({i \in GoodLines(scanned, k) : lines[i] = x})

\* a scan of two months of which the first could not be opened and the
\* second has a torn last line after a line that was returned
C30_Witness ==
  /\ scanned # NoScan /\ ~scanned.threw
  /\ \E k1, k2 \in VisitedBy(scanned) :
       /\ k1[2] < k2[2] \/ (k1[2] = k2[2] /\ k1[3] < k2[3])
       /\ ~scanned.damage[k1].opens
       /\ Len(indexFiles[k1]) >= 1
       /\ InRange(indexFiles[k1][1].createdTimestamp)
       /\ Len(indexFiles[k2]) = 2
       /\ scanned.damage[k2] = Torn(2)
       /\ InRange(indexFiles[k2][1].createdTimestamp)
       /\ InRange(indexFiles[k2][2].createdTimestamp)
       /\ indexFiles[k2][1] # indexFiles[k2][2]
       /\ scanned.sorted = <<indexFiles[k2][1]>>

\* the index under appendMessage (for each live message),
\* getMessagesByDateRange and indexHistoricMessages; the store answers a
\* request with the same batch every time and may repeat records it gave
\* before
InitHistoric ==
  /\ store \in {S \in SUBSET Ids : Cardinality(S) \in {MaxRecs - 1, MaxRecs}}
  /\ Windows
  /\ max = Unlimited
  /\ Idle
  /\ indexEnabled \in BOOLEAN
  /\ indexFiles = [f \in FileKeys |-> <<>>]
  /\ appended = <<>>
  /\ queried = NoQuery
  /\ writers = {}
  /\ written = <<>>
  /\ content = NoToken
  /\ now = 0
  /\ window = Pending
  /\ date = 0
  /\ snowflake = NotEncoded
  /\ overlap \in 0..(BatchLimit - 1)
  /\ previous = <<>>
  /\ NoConversion
  /\ NoLiteral
  /\ scanned = NoScan
  /\ indexing = NotIndexing
  /\ BotIdle

NextHistoric ==
  \/ MessageCreate
  \/ QueryIndex
  \/ CallIndexHistoric
  \/ AroundStep
  \/ RetryStep
  \/ BackwardStepSame
  \/ ForwardStepSame
  \/ LinearStepSame
  \/ OptimizedCallFails
  \/ LinearCallFails
  \/ IndexFetched
  \/ IndexFallbackFetched
  \/ IndexFetchFailed

SpecHistoric == InitHistoric /\ [][NextHistoric]_vars

IsPrefix(s, t) == Len(s) <= Len(t) /\ SubSeq(t, 1, Len(s)) = s

C35_EachRecordIndexedOnce ==
  indexing.phase = "done" =>
    /\ ~HasRepeat(indexing.lines)
    /\ indexing.total = Len(indexing.lines)

\* an invocation whose retrieval fell back to fetchMessages, against a
\* store that never repeats a record, and that wrote a record twice
C35_Witness ==
  /\ indexing.phase = "done"
  /\ overlap = 0
  /\ indexing.total = Len(indexing.lines)
  /\ \E m \in store :
       Cardinality({i \in 1..Len(indexing.lines) : indexing.lines[i] = m}) = 2

\* C33: the sorted list fetchMessages returns has no two records with the
\* same id, holds only records with startUTC <= createdTimestamp <= endUTC,
\* and is in non-decreasing createdTimestamp order, for every window, every
\* max >= 1 and every store, also when the store hands out the same record
\* in more than one batch.
C33_LinearUniqueInWindowSorted ==
  LinearReturned =>
    /\ \A i, j \in 1..Len(result.sorted) :
         result.sorted[i] = result.sorted[j] => i = j
    /\ \A i \in 1..Len(result.sorted) :
         startUTC <= Ts(result.sorted[i]) /\ Ts(result.sorted[i]) <= endUTC
    /\ \A i, j \in 1..Len(result.sorted) :
         i < j => Ts(result.sorted[i]) <= Ts(result.sorted[j])

\* a direct fetchMessages call that received an in-window record in two
\* batches and returned several records
C33_Witness ==
  /\ Returned /\ entry = "fetchMessages"
  /\ Len(result.sorted) >= 2
  /\ \E i, j \in 1..Len(result.rawLog) :
       /\ i < j
       /\ result.rawLog[i] = result.rawLog[j]
       /\ Has(result.sorted, result.rawLog[i])

\* C34: for every max >= 1 the number of records accepted by
\* expandFromAnchor and by fetchMessages is at most max at every step, and
\* the sorted list handed back never has more than max records.
C34_AcceptedAtMostMax ==
  /\ max >= 1
  /\ Len(allMessagesMap) <= max
  /\ Returned => Len(result.sorted) <= max

\* a direct call of expandFromAnchor or fetchMessages that stopped at the
\* limit with more in-window records in the store than max
C34_Witness ==
  /\ Returned /\ ~Optimized
  /\ result.hitLimit
  /\ Len(result.sorted) = max
  /\ Cardinality(InWindow) > max
  /\ pc = "done" /\ Len(allMessagesMap) = max

\* ------------------------------------------- messageCreate and handlers
\* texts are sequences of one-character strings
IndexCommand == <<"/", "i", "n", "d", "e", "x">>
prefix == <<"!", "c", "t", "x">>
alias == <<"!", "c", "o", "n", "t", "e", "x", "t">>

startsWith(s, p) == Len(p) <= Len(s) /\ SubSeq(s, 1, Len(p)) = p
includes(s, p) ==
  \E i \in 1..(Len(s) - Len(p) + 1) : SubSeq(s, i, i + Len(p) - 1) = p
toLowerCase(s) ==
  [i \in 1..Len(s) |-> IF s[i] = "A" THEN "a"
                       ELSE IF s[i] = "I" THEN "i"
                       ELSE IF s[i] = "G" THEN "g"
                       ELSE s[i]]
RECURSIVE trimStart(_)
trimStart(s) ==
  IF s # <<>> /\ Head(s) = " " THEN trimStart(Tail(s)) ELSE s
RECURSIVE trimEnd(_)
trimEnd(s) ==
  IF s # <<>> /\ s[Len(s)] = " " THEN trimEnd(SubSeq(s, 1, Len(s) - 1)) ELSE s
trim(s) == trimEnd(trimStart(s))

Texts ==
  { <<"/", "i", "n", "d", "e", "x">>,
    <<"/", "i", "n", "d", "e", "x", "e", "s">>,
    <<" ", "/", "i", "n", "d", "e", "x">>,
    <<"!", "c", "t", "x">>,
    <<" ", "!", "c", "t", "x", " ">>,
    <<"!", "c", "o", "n", "t", "e", "x", "t">>,
    <<"!", "c", "t">>,
    <<"h", "i">> }
RoleNames ==
  { <<"A", "I">>, <<"G", "p", "t">>, <<"m", "o", "d">>, <<"m", "a", "i", "n">> }
\* what parseDateRange makes of the text: no token, a window, or a token it
\* reports and answers with null
TokenKinds == {"none", "range", "unreadable"}
Messages ==
  [authorBot : BOOLEAN, text : Texts, token : TokenKinds,
   mentionsBot : BOOLEAN,
   roles : {R \in SUBSET RoleNames : Cardinality(R) <= 1}]

MaxFound == 2

\* this.handlers of DiscordBot
handlers == <<"ContextHandler", "MentionHandler">>

\* shouldHandle of ContextHandler and of MentionHandler
shouldHandle(handler, message) ==
  IF handler = "ContextHandler"
  THEN LET text == trim(message.text)
           isCommand == startsWith(text, prefix) \/ startsWith(text, alias)
       IN isCommand /\ ~message.authorBot
  ELSE LET mentionsRole ==
             \E role \in message.roles :
               \/ includes(toLowerCase(role), <<"c", "h", "a", "t", "g", "p", "t">>)
               \/ includes(toLowerCase(role), <<"g", "p", "t">>)
               \/ includes(toLowerCase(role), <<"a", "i">>)
           isNotBot == ~message.authorBot
       IN (message.mentionsBot \/ mentionsRole) /\ isNotBot

\* fault: the handler loop of handleMessage has no break
DispatchAll(message) ==
  SelectSeq(handlers, LAMBDA h : shouldHandle(h, message))

\* the handler loop of handleMessage: the handlers whose handle() it calls
Dispatch(message) ==
  LET matching == {i \in 1..Len(handlers) : shouldHandle(handlers[i], message)}
  IN IF matching = {} THEN <<>>
     ELSE <<handlers[CHOOSE i \in matching : \A j \in matching : i <= j]>>

\* fault: fetchMessagesForContext never sets noMessagesFound
noMessagesFoundNever(dateRange, length) == FALSE

\* result.noMessagesFound of fetchMessagesForContext
noMessagesFound(dateRange, length) == dateRange /\ length = 0

\* an error raised at a site, and how a pending error ends
Raise(r, site, how) == Append(r, [error |-> site, ended |-> how])
End(r, how) ==
  [i \in 1..Len(r) |-> IF r[i].ended = "open"
                       THEN [r[i] EXCEPT !.ended = how] ELSE r[i]]

\* what parseDateRange logs and returns for the token of a text
ParseToken(message) ==
  IF message.token = "unreadable"
  THEN [raised |-> <<[error |-> "parseDateRange", ended |-> "result"]>>,
        diagnostics |-> {"parseDateRange"}]
  ELSE [raised |-> <<>>, diagnostics |-> {}]

\* the errors a fetchMessagesOptimized call may meet and what its try/catch
\* makes of them: an error of the optimized path is logged and answered by
\* the linear fallback; an error of the fallback rejects the call
Troubles == {"none", "dateToSnowflake", "fetch", "fallback"}
OptimizedOutcome(trouble) ==
  IF trouble = "none"
  THEN [raised |-> <<>>, diagnostics |-> {}, rejects |-> FALSE]
  ELSE IF trouble = "dateToSnowflake"
  THEN [raised |-> <<[error |-> "dateToSnowflake", ended |-> "result"]>>,
        diagnostics |-> {"dateToSnowflake", "fetchMessagesOptimized"},
        rejects |-> FALSE]
  ELSE IF trouble = "fetch"
  THEN [raised |-> <<[error |-> "fetch", ended |-> "result"]>>,
        diagnostics |-> {"fetchMessagesOptimized"},
        rejects |-> FALSE]
  ELSE [raised |-> <<[error |-> "fetch", ended |-> "open"],
                     [error |-> "fallback", ended |-> "open"]>>,
        diagnostics |-> {"fetchMessagesOptimized"},
        rejects |-> TRUE]

\* the messageCreate listener up to its first await
MessageReceived ==
  /\ NotHandling
  /\ \E message \in Messages, appendFails \in BOOLEAN :
       /\ incoming' = message
       /\ posted' = <<>>
       /\ fetched' = NotFetched
       /\ IF message.authorBot
          THEN /\ ~appendFails
               /\ stage' = "idle"
               /\ dispatched' = <<>>
               /\ raised' = <<>>
               /\ diagnostics' = {}
          ELSE IF startsWith(message.text, IndexCommand)
          THEN /\ ~appendFails
               /\ stage' = "indexHistoricMessages"
               /\ dispatched' = <<>>
               /\ raised' = ParseToken(message).raised
               /\ diagnostics' = ParseToken(message).diagnostics
          ELSE LET append == IF appendFails
                             THEN [raised |-> <<[error |-> "appendFile",
                                                ended |-> "result"]>>,
                                   diagnostics |-> {"appendMessage"}]
                             ELSE [raised |-> <<>>, diagnostics |-> {}]
                   found == Dispatch(message)
               IN /\ appendFails => indexEnabled
                  /\ dispatched' = found
                  /\ IF found = <<>>
                     THEN /\ stage' = "idle"
                          /\ raised' = append.raised
                          /\ diagnostics' = append.diagnostics
                     ELSE IF Head(found) = "ContextHandler"
                     THEN /\ stage' = "ContextHandler.handle"
                          /\ raised' = append.raised
                          /\ diagnostics' = append.diagnostics
                     ELSE /\ stage' = "fetchMessagesForContext"
                          /\ raised' = append.raised \o ParseToken(message).raised
                          /\ diagnostics' = append.diagnostics
                                              \cup ParseToken(message).diagnostics
  /\ UNCHANGED <<fetchVars, indexEnabled, indexFiles, appended, queried,
                 writers, written, parseVars, encodeVars, replayVars,
                 zoneVars, literalVars, scanVars, historicVars, openaiVars,
                 contextVars>>

\* what every later step of the listener leaves alone
HandlingOnly ==
  UNCHANGED <<fetchVars, indexEnabled, indexFiles, appended, queried,
              writers, written, parseVars, encodeVars, replayVars,
              zoneVars, literalVars, scanVars, historicVars, openaiVars,
              contextVars, incoming, dispatched>>

\* indexHistoricMessages of the '/index' text command resolves: its catch
\* turns a rejected retrieval into a summary
IndexingDone ==
  /\ stage = "indexHistoricMessages"
  /\ \E trouble \in Troubles :
       LET out == OptimizedOutcome(trouble)
       IN /\ trouble # "none" => indexEnabled
          /\ raised' = raised \o End(out.raised, "result")
          /\ diagnostics' = diagnostics \cup out.diagnostics
                              \cup (IF out.rejects THEN {"indexHistoricMessages"}
                                    ELSE {})
  /\ stage' = "index reply"
  /\ UNCHANGED <<posted, fetched>>
  /\ HandlingOnly

\* message.reply of the '/index' text command settles; its rejection is the
\* listener's rejection, which the unhandledRejection handler logs
IndexReplied ==
  /\ stage = "index reply"
  /\ posted' = Append(posted, "index summary")
  /\ \E ok \in BOOLEAN :
       IF ok THEN UNCHANGED <<raised, diagnostics>>
       ELSE /\ raised' = Raise(raised, "reply", "none")
            /\ diagnostics' = diagnostics \cup {"unhandledRejection"}
  /\ stage' = "idle"
  /\ UNCHANGED fetched
  /\ HandlingOnly

\* the catch of MentionHandler.handle and of ContextHandler.handle
HandlerCatches(sites) ==
  /\ diagnostics' = diagnostics \cup sites
  /\ stage' = "handleError"

\* fetchMessagesForContext settles; MentionHandler.handle runs on to its
\* next await
ContextFetched ==
  /\ stage = "fetchMessagesForContext"
  /\ \E trouble \in Troubles, length \in 0..MaxFound, limit \in BOOLEAN :
       LET dateRange == incoming.token = "range"
           out == OptimizedOutcome(trouble)
       IN IF dateRange
          THEN /\ limit => length = MaxFound
               /\ IF out.rejects
                  THEN /\ length = 0 /\ ~limit
                       /\ raised' = raised \o out.raised
                       /\ fetched' = NotFetched
                       /\ HandlerCatches(out.diagnostics
                                           \cup {"fetchMessagesForContext",
                                                 "MentionHandler.handle"})
                  ELSE /\ raised' = raised \o out.raised
                       /\ diagnostics' = diagnostics \cup out.diagnostics
                       /\ fetched' = [sorted |-> length, hitLimit |-> limit,
                                      noMessagesFound |->
                                        noMessagesFound(dateRange, length)]
                       /\ stage' = IF fetched'.noMessagesFound
                                   THEN "message.reply"
                                   ELSE "processAIRequest"
          ELSE /\ trouble \in {"none", "fetch"}
               /\ ~limit
               /\ IF trouble = "fetch"
                  THEN /\ length = 0
                       /\ raised' = Raise(raised, "fetch", "open")
                       /\ fetched' = NotFetched
                       /\ HandlerCatches({"fetchMessagesForContext",
                                          "MentionHandler.handle"})
                  ELSE /\ length >= 1
                       /\ UNCHANGED <<raised, diagnostics>>
                       /\ fetched' = [sorted |-> length, hitLimit |-> FALSE,
                                      noMessagesFound |-> FALSE]
                       /\ stage' = "processAIRequest"
  /\ UNCHANGED posted
  /\ HandlingOnly

\* the reply of the noMessagesFound branch settles
NoMessagesReplied ==
  /\ stage = "message.reply"
  /\ posted' = Append(posted, "no messages")
  /\ \E ok \in BOOLEAN :
       IF ok THEN /\ stage' = "idle"
                  /\ UNCHANGED <<raised, diagnostics>>
       ELSE /\ raised' = Raise(raised, "reply", "open")
            /\ HandlerCatches({"MentionHandler.handle"})
  /\ UNCHANGED fetched
  /\ HandlingOnly

\* AIService.processAIRequest settles
AIProcessed ==
  /\ stage = "processAIRequest"
  /\ posted' = Append(posted, "AI request")
  /\ \E ok \in BOOLEAN :
       IF ok THEN /\ stage' = "handleResponse"
                  /\ UNCHANGED <<raised, diagnostics>>
       ELSE /\ raised' = Raise(raised, "processAIRequest", "open")
            /\ HandlerCatches({"processAIRequest", "MentionHandler.handle"})
  /\ UNCHANGED fetched
  /\ HandlingOnly

\* channelService.handleResponse settles
ResponsePosted ==
  /\ stage = "handleResponse"
  /\ posted' = Append(posted, "response")
  /\ \E ok \in BOOLEAN :
       IF ok THEN /\ stage' = IF fetched.hitLimit THEN "postLimitWarning"
                              ELSE "idle"
                  /\ UNCHANGED <<raised, diagnostics>>
       ELSE /\ raised' = Raise(raised, "send", "open")
            /\ HandlerCatches({"handleResponse", "MentionHandler.handle"})
  /\ UNCHANGED fetched
  /\ HandlingOnly

\* channelService.postLimitWarning settles; it catches its own error
LimitWarningPosted ==
  /\ stage = "postLimitWarning"
  /\ posted' = Append(posted, "limit warning")
  /\ \E ok \in BOOLEAN :
       IF ok THEN UNCHANGED <<raised, diagnostics>>
       ELSE /\ raised' = Raise(raised, "send", "none")
            /\ diagnostics' = diagnostics \cup {"postLimitWarning"}
  /\ stage' = "idle"
  /\ UNCHANGED fetched
  /\ HandlingOnly

\* the catch of handleMessage around handler.handle, and its outer catch up
\* to the await of its reply
HandlerFailed ==
  /\ diagnostics' = diagnostics \cup {"handler.handle", "handleMessage"}
  /\ stage' = "error reply"

\* ContextHandler.handle settles: its reply is returned without await, so a
\* rejected reply is the rejection of handle
ContextHandled ==
  /\ stage = "ContextHandler.handle"
  /\ \E how \in {"replied", "service rejects", "reply rejects"} :
       IF how = "replied"
       THEN /\ posted' = Append(posted, "context reply")
            /\ stage' = "idle"
            /\ UNCHANGED <<raised, diagnostics>>
       ELSE IF how = "service rejects"
       THEN /\ raised' = Raise(raised, "ContextService", "open")
            /\ HandlerCatches({"ContextHandler.handle"})
            /\ UNCHANGED posted
       ELSE /\ posted' = Append(posted, "context reply")
            /\ raised' = Raise(raised, "reply", "open")
            /\ HandlerFailed
  /\ UNCHANGED fetched
  /\ HandlingOnly

\* await this.handleError(message, error) settles: it tells the user, or
\* its own reply rejects and handle rejects with it
ErrorHandled ==
  /\ stage = "handleError"
  /\ posted' = Append(posted, "error notice")
  /\ raised' = End(raised, "reply")
  /\ \E ok \in BOOLEAN :
       IF ok THEN /\ stage' = "idle"
                  /\ UNCHANGED diagnostics
       ELSE HandlerFailed
  /\ UNCHANGED fetched
  /\ HandlingOnly

\* the reply of the outer catch of handleMessage settles
ErrorReplied ==
  /\ stage = "error reply"
  /\ posted' = Append(posted, "error reply")
  /\ raised' = End(raised, "reply")
  /\ \E ok \in BOOLEAN :
       diagnostics' = IF ok THEN diagnostics
                      ELSE diagnostics \cup {"error reply"}
  /\ stage' = "idle"
  /\ UNCHANGED fetched
  /\ HandlingOnly

\* a caller invokes getMessagesByDateRange: a month file that cannot be
\* opened is passed over by the empty catch around it, any other error is
\* logged by the outer catch; both end in a result
IndexQueried ==
  /\ NotHandling
  /\ indexEnabled
  /\ incoming' = NoMessage
  /\ dispatched' = <<>>
  /\ posted' = <<>>
  /\ fetched' = NotFetched
  /\ \E how \in {"read", "open rejects", "throws"} :
       IF how = "read"
       THEN raised' = <<>> /\ diagnostics' = {}
       ELSE IF how = "open rejects"
       THEN /\ raised' = <<[error |-> "open", ended |-> "result"]>>
            /\ diagnostics' = {}
       ELSE /\ raised' = <<[error |-> "query", ended |-> "result"]>>
            /\ diagnostics' = {"getMessagesByDateRange"}
  /\ stage' = "idle"
  /\ UNCHANGED <<fetchVars, indexEnabled, indexFiles, appended, queried,
                 writers, written, parseVars, encodeVars, replayVars,
                 zoneVars, literalVars, scanVars, historicVars, openaiVars,
                 contextVars>>

\* the listener has returned and the next event is awaited
Settled ==
  /\ stage = "idle"
  /\ ~NotHandling
  /\ incoming' = NoMessage
  /\ stage' = "idle"
  /\ dispatched' = <<>>
  /\ posted' = <<>>
  /\ raised' = <<>>
  /\ diagnostics' = {}
  /\ fetched' = NotFetched
  /\ UNCHANGED <<fetchVars, indexEnabled, indexFiles, appended, queried,
                 writers, written, parseVars, encodeVars, replayVars,
                 zoneVars, literalVars, scanVars, historicVars, openaiVars,
                 contextVars>>

InitHandle ==
  /\ store = {}
  /\ startUTC = 0
  /\ endUTC = 0
  /\ max = 1
  /\ Idle
  /\ indexEnabled \in BOOLEAN
  /\ EmptyIndex

NextHandle ==
  \/ MessageReceived
  \/ IndexingDone
  \/ IndexReplied
  \/ ContextFetched
  \/ NoMessagesReplied
  \/ AIProcessed
  \/ ResponsePosted
  \/ LimitWarningPosted
  \/ ContextHandled
  \/ ErrorHandled
  \/ ErrorReplied
  \/ IndexQueried
  \/ Settled

SpecHandle == InitHandle /\ [][NextHandle]_vars


\* the errors of the retrieval and index subsystem, by the place that
\* raises them, and the logger.error sites that report each
SubsystemErrors ==
  {"parseDateRange", "dateToSnowflake", "fetch", "fallback", "appendFile",
   "open", "query"}
Diagnoses(error) ==
  IF error = "parseDateRange" THEN {"parseDateRange"}
  ELSE IF error = "dateToSnowflake" THEN {"dateToSnowflake", "fetchMessagesOptimized"}
  ELSE IF error = "fetch" THEN {"fetchMessagesOptimized", "fetchMessagesForContext"}
  ELSE IF error = "fallback" THEN {"fetchMessagesForContext", "indexHistoricMessages"}
  ELSE IF error = "appendFile" THEN {"appendMessage"}
  ELSE {"getMessagesByDateRange"}

\* C32: no error raised in the retrieval and index subsystem (a date that
\* does not parse, an id that cannot be encoded, a rejected remote call in
\* the optimized path or in the fallback, a filesystem error in append or in
\* query) reaches the uncaughtException handler that ends the process; each
\* is reported by a logger.error call and ends in a result or in a reply to
\* the user (a reply counts once it is sent, whether or not it arrives).
C32_SubsystemErrorsLoggedAndAnswered ==
  /\ stage # "uncaughtException"
  /\ \A i \in 1..Len(raised) :
       raised[i].error \in SubsystemErrors =>
         /\ Diagnoses(raised[i].error) \cap diagnostics # {}
         /\ stage = "idle" => raised[i].ended \in {"result", "reply"}

\* a getMessagesByDateRange call that could not open a month file and
\* returned its result with nothing logged
C32_Witness ==
  /\ stage = "idle"
  /\ incoming = NoMessage
  /\ \E i \in 1..Len(raised) :
       raised[i] = [error |-> "open", ended |-> "result"]
  /\ diagnostics = {}

\* C38: DiscordBot hands an incoming message to at most one handler, the
\* first of the handler list (ContextHandler, then MentionHandler) whose
\* shouldHandle is true; a message written by a bot and a message that
\* starts with '/index' are handed to no handler.
C38_FirstMatchingHandlerOnly ==
  LET skipped == incoming.authorBot \/ startsWith(incoming.text, IndexCommand)
      IsFirst(i) == /\ shouldHandle(handlers[i], incoming)
                    /\ \A j \in 1..(i - 1) : ~shouldHandle(handlers[j], incoming)
  IN /\ Len(dispatched) <= 1
     /\ skipped => dispatched = <<>>
     /\ \A i \in 1..Len(handlers) :
          (~skipped /\ IsFirst(i)) => dispatched = <<handlers[i]>>
     /\ dispatched # <<>> =>
          \E i \in 1..Len(handlers) : IsFirst(i) /\ dispatched[1] = handlers[i]

\* a context command that also mentions the bot went to ContextHandler
\* alone, which answered it
C38_Witness ==
  /\ incoming.mentionsBot
  /\ shouldHandle("ContextHandler", incoming)
  /\ shouldHandle("MentionHandler", incoming)
  /\ dispatched = <<"ContextHandler">>
  /\ posted = <<"context reply">>
  /\ stage = "idle"

\* C39: when a mention carries a date-range token and the retrieval returns
\* zero records, MentionHandler sends the "couldn't find any messages" reply
\* once and stops: no AI request is made, no response and no limit warning
\* is posted for that message.
C39_NoMessagesEndsHandling ==
  LET Count(what) == Cardinality({i \in 1..Len(posted) : posted[i] = what})
  IN (incoming.token = "range" /\ fetched.sorted = 0) =>
       /\ Count("AI request") = 0
       /\ Count("response") = 0
       /\ Count("limit warning") = 0
       /\ Count("no messages") <= 1
       /\ stage \in {"message.reply", "idle", "handleError", "error reply"}
       /\ stage # "message.reply" => Count("no messages") = 1

\* a mention with a readable token whose retrieval found nothing: the reply
\* was sent and the handler has returned
C39_Witness ==
  /\ incoming.token = "range"
  /\ dispatched = <<"MentionHandler">>
  /\ fetched.sorted = 0 /\ fetched.noMessagesFound
  /\ posted = <<"no messages">>
  /\ stage = "idle"

\* ------------------------------------- buildOpenAIInput, tracking revision
MaxPromptId == 1
MaxCalls == 3
PromptIds == 0..MaxPromptId
\* the sorted lists handed to buildOpenAIInput: up to two messages, also the
\* same message twice
PromptLists ==
  {<<>>} \cup {<<a>> : a \in PromptIds} \cup {<<a, b>> : a, b \in PromptIds}
BotIds == {SetMax(PromptIds), NoId}

userPrompt == [kind |-> "prompt", id |-> NoId]
systemMessage == [role |-> "system", text |-> userPrompt]
\* one element of sorted.map(...): the prompt for the bot's own id, the
\* labelled content of the message otherwise
UserEntry(msg, botId) ==
  [role |-> "user",
   text |-> IF msg = botId THEN userPrompt ELSE [kind |-> "line", id |-> msg]]

\* fault: buildOpenAIInput filters by the set and never adds to it
buildOpenAIInputForgets(processed, sorted, botId) ==
  LET newMessages == SelectSeq(sorted, LAMBDA msg : msg \notin processed)
  IN [processed |-> processed,
      output |-> <<systemMessage>>
                   \o [i \in 1..Len(newMessages) |->
                         UserEntry(newMessages[i], botId)]]

\* buildOpenAIInput with the module-level set: the set after the call and
\* the array returned
buildOpenAIInput(processed, sorted, botId) ==
  LET newMessages == SelectSeq(sorted, LAMBDA msg : msg \notin processed)
  IN [processed |-> processed \cup {newMessages[i] : i \in 1..Len(newMessages)},
      output |-> <<systemMessage>>
                   \o [i \in 1..Len(newMessages) |->
                         UserEntry(newMessages[i], botId)]]

\* a caller invokes buildOpenAIInput
BuildOpenAIInput ==
  /\ Len(inputs) < MaxCalls
  /\ \E sorted \in PromptLists, botId \in BotIds :
       LET built == buildOpenAIInput(processedMessageIds, sorted, botId)
       IN /\ processedMessageIds' = built.processed
          /\ inputs' = Append(inputs, [sorted |-> sorted, botId |-> botId,
                                       output |-> built.output])
  /\ UNCHANGED <<fetchVars, indexEnabled, indexFiles, appended, queried,
                 writers, written, parseVars, encodeVars, replayVars,
                 zoneVars, literalVars, scanVars, historicVars, handleVars,
                 contextVars>>

InitInput ==
  /\ store = {}
  /\ startUTC = 0
  /\ endUTC = 0
  /\ max = 1
  /\ Idle
  /\ indexEnabled = FALSE
  /\ EmptyIndex

NextInput == BuildOpenAIInput

SpecInput == InitInput /\ [][NextInput]_vars

\* the message ids that have an entry in the array a call returned
Contributed(call) ==
  {id \in PromptIds :
     \E k \in 2..Len(call.output) :
       \/ call.output[k].text = [kind |-> "line", id |-> id]
       \/ call.output[k].text = userPrompt /\ id = call.botId}

\* C36: with the process-wide processedMessageIds set, each message id has
\* an entry in the output of at most one buildOpenAIInput call of the
\* process: a message included by an earlier call is left out by every
\* later call, and a call with a message list handed in before returns the
\* system message alone.
C36_EachMessageInOneCallOnly ==
  \A i, j \in 1..Len(inputs) :
    i < j =>
      /\ Contributed(inputs[i]) \cap Contributed(inputs[j]) = {}
      /\ IdsOf(inputs[i].sorted) \cap Contributed(inputs[j]) = {}
      /\ inputs[j].sorted = inputs[i].sorted =>
           inputs[j].output = <<systemMessage>>

\* three calls: two messages, the same list again, which returned the
\* system message alone
C36_Witness ==
  /\ Len(inputs) >= 2
  /\ Len(inputs[1].sorted) = 2
  /\ Cardinality(Contributed(inputs[1])) = 2
  /\ inputs[2].sorted = inputs[1].sorted
  /\ inputs[2].output = <<systemMessage>>

\* ------------------------------------------------------ ContextService
MaxWriters == 3
WriteOps == {"addGlobal", "deleteGlobal", "addUser", "deleteUser"}
ContextUsers == {"alice", "bob"}
\* the call started as number i works on key i, so that the keys of the
\* calls are distinct
ContextKeys == 1..MaxWriters
\* context.json holds the keys of global and, per user, the keys of
\* users[username]; a user without keys has no entry
ContextFiles ==
  {[global |-> G, users |-> U] :
     G \in {{}, ContextKeys},
     U \in {{}, {<<"alice", k>> : k \in ContextKeys}}}

\* what a write does to the data it loaded, and whether it saves
Modify(call, data) ==
  IF call.op = "addGlobal"
  THEN [data |-> [data EXCEPT !.global = @ \cup {call.key}], saves |-> TRUE]
  ELSE IF call.op = "deleteGlobal"
  THEN [data |-> [data EXCEPT !.global = @ \ {call.key}], saves |-> TRUE]
  ELSE IF call.op = "addUser"
  THEN [data |-> [data EXCEPT !.users = @ \cup {<<call.username, call.key>>}],
        saves |-> TRUE]
  ELSE [data |-> [data EXCEPT !.users = @ \ {<<call.username, call.key>>}],
        saves |-> <<call.username, call.key>> \in data.users]

\* a write operation is called: it returns at once when persistence is
\* disabled, otherwise it runs to the await of this._load()
StartWrite ==
  /\ Len(running) < MaxWriters
  /\ \E op \in WriteOps, username \in ContextUsers :
       running' = Append(running,
                         [op |-> op, username |-> username,
                          key |-> Len(running) + 1,
                          at |-> IF contextEnabled THEN "load" ELSE "done",
                          data |-> NoContext])
  /\ UNCHANGED <<contextEnabled, contextFile>>
  /\ UNCHANGED <<fetchVars, indexEnabled, indexFiles, appended, queried,
                 writers, written, parseVars, encodeVars, replayVars,
                 zoneVars, literalVars, scanVars, historicVars, handleVars,
                 openaiVars>>

\* fs.readFile of _load resolves: the call changes its copy of the data and
\* runs to the await of this._save(data)
LoadDone ==
  /\ \E i \in 1..Len(running) :
       /\ running[i].at = "load"
       /\ LET changed == Modify(running[i], contextFile)
          IN running' = [running EXCEPT ![i].data = changed.data,
                                        ![i].at = IF changed.saves THEN "save"
                                                  ELSE "done"]
  /\ UNCHANGED <<contextEnabled, contextFile>>
  /\ UNCHANGED <<fetchVars, indexEnabled, indexFiles, appended, queried,
                 writers, written, parseVars, encodeVars, replayVars,
                 zoneVars, literalVars, scanVars, historicVars, handleVars,
                 openaiVars>>

\* fs.writeFile of _save resolves: the file holds the call's copy
SaveDone ==
  /\ \E i \in 1..Len(running) :
       /\ running[i].at = "save"
       /\ contextFile' = running[i].data
       /\ running' = [running EXCEPT ![i].at = "done"]
  /\ UNCHANGED contextEnabled
  /\ UNCHANGED <<fetchVars, indexEnabled, indexFiles, appended, queried,
                 writers, written, parseVars, encodeVars, replayVars,
                 zoneVars, literalVars, scanVars, historicVars, handleVars,
                 openaiVars>>

InitContext ==
  /\ store = {}
  /\ startUTC = 0
  /\ endUTC = 0
  /\ max = 1
  /\ Idle
  /\ indexEnabled = FALSE
  /\ indexFiles = [f \in FileKeys |-> <<>>]
  /\ appended = <<>>
  /\ queried = NoQuery
  /\ writers = {}
  /\ written = <<>>
  /\ content = NoToken
  /\ now = 0
  /\ window = Pending
  /\ date = 0
  /\ snowflake = NotEncoded
  /\ overlap = 0
  /\ previous = <<>>
  /\ NoConversion
  /\ NoLiteral
  /\ scanned = NoScan
  /\ indexing = NotIndexing
  /\ NotHandling
  /\ processedMessageIds = {}
  /\ inputs = <<>>
  /\ contextEnabled \in BOOLEAN
  /\ contextFile \in ContextFiles
  /\ running = <<>>

NextContext == StartWrite \/ LoadDone \/ SaveDone

SpecContext == InitContext /\ [][NextContext]_vars

\* the stored context shows what a completed write did
Reflected(call) ==
  IF call.op = "addGlobal" THEN call.key \in contextFile.global
  ELSE IF call.op = "deleteGlobal" THEN call.key \notin contextFile.global
  ELSE IF call.op = "addUser"
  THEN <<call.username, call.key>> \in contextFile.users
  ELSE <<call.username, call.key>> \notin contextFile.users

\* C37: once a set of concurrently running ContextService writes (addGlobal,
\* deleteGlobal, addUser, deleteUser) on distinct keys has completed, the
\* stored context reflects every one of them: each added key is present and
\* no completed update is undone by the load-modify-save of another call.
C37_NoLostContextUpdate ==
  (contextEnabled /\ \A i \in 1..Len(running) : running[i].at = "done") =>
    \A i \in 1..Len(running) : Reflected(running[i])

\* two addGlobal calls on different keys that both completed, with only the
\* key of the second in the file
C37_Witness ==
  /\ contextEnabled
  /\ Len(running) = 2
  /\ running[1].op = "addGlobal" /\ running[1].at = "done"
  /\ running[2].op = "addGlobal" /\ running[2].at = "done"
  /\ running[1].key \notin contextFile.global
  /\ running[2].key \in contextFile.global
====
